---- MODULE Spec2Model ----
(***************************************************************************)
(* A model of the EVtrack automation service: the HTTP facade of          *)
(* api/main.py, driver provisioning (utils/), and the visitor search and  *)
(* credential workflows (automation/).  Strings are sequences of          *)
(* one-character strings.                                                 *)
(***************************************************************************)
EXTENDS Integers, Sequences, FiniteSets, TLC

VARIABLES
    time_string,    \* the argument of validate_time_format
    time_result,    \* what the call produced: pending, a return value or an HTTPException
    config,         \* the process environment: AWS_LAMBDA_FUNCTION_NAME, EVTRACK_EMAIL/PASSWORD
    req,            \* the HTTP request being handled
    data,           \* the cleaned form data the handler built from the request
    pc,             \* the handler's position
    driver,         \* the handler's local variable driver
    exc,            \* the exception leaving the handler's try statement
    wf_result,      \* what the workflow returned
    start_driver_calls, \* calls of start_driver / start_driver_lambda
    sessions_open,  \* browser sessions created and not closed
    quit_calls,     \* calls of driver.quit()
    quit_raised,    \* driver.quit() raised
    dom_writes,     \* form fields written on the target site
    save_clicks,    \* clicks on a save / generate button
    response,       \* the HTTP status sent (0: none yet)
    search_term,    \* the argument of search_visitor_case_insensitive
    site_matches,   \* the terms for which the target site lists a visitor
    websocket,      \* the search automation's listener: None or attached
    search_pc,      \* the position of search_visitor_case_insensitive
    pending,        \* variations_to_try still ahead
    calls,          \* the calls of search_visitor_by_term so far, in order
    last_table,     \* the table the site showed in the last call
    last_result,    \* what the last call of search_visitor_by_term did
    only_zero_rows, \* every table shown so far had zero rows
    send_failed,    \* some progress send to the listener raised
    site_failed,    \* the site redirected to /login or an element wait timed out
    search_result,  \* what search_visitor_case_insensitive returns
    vehicle_run,    \* one run of the vehicle-add workflow and the handler's answer to it
    auth_run,       \* one request through verify_auth: configuration, headers, outcome
    update_run,     \* one run of the visitor-update workflow and the handler's answer to it
    login_run,      \* one call of EvTrackLogin.login: the page, the position, the polls
    upload_run,     \* the file attachments of one visitor create or update request
    ws_run,         \* the /ws clients, the process-wide listener slot, one workflow request
    invite_run      \* the visitorUuid field of one invitation request

timeVars == <<time_string, time_result>>
notTime == <<config, req, data, pc, driver, exc, wf_result, start_driver_calls,
             sessions_open, quit_calls, quit_raised, dom_writes, save_clicks, response,
             search_term, site_matches, websocket, search_pc, pending, calls,
             last_table, last_result, only_zero_rows, send_failed, site_failed,
             search_result, vehicle_run, auth_run, update_run, login_run, upload_run, ws_run, invite_run>>
searchVars == <<search_term, site_matches, websocket, search_pc, pending, calls,
                last_table, last_result, only_zero_rows, send_failed, site_failed,
                search_result>>
notSearch == <<time_string, time_result, config, req, data, pc, driver, exc, wf_result,
               start_driver_calls, sessions_open, quit_calls, quit_raised, dom_writes,
               save_clicks, response, vehicle_run, auth_run, update_run, login_run, upload_run, ws_run, invite_run>>
notHttp == <<time_string, time_result, searchVars, vehicle_run, auth_run, update_run, login_run, upload_run, ws_run, invite_run>>
httpVars == <<config, req, data, pc, driver, exc, wf_result, start_driver_calls,
              sessions_open, quit_calls, quit_raised, dom_writes, save_clicks, response>>
notVehicle == <<timeVars, httpVars, searchVars, auth_run, update_run, login_run, upload_run, ws_run, invite_run>>
notAuth == <<timeVars, httpVars, searchVars, vehicle_run, update_run, login_run, upload_run, ws_run, invite_run>>
notUpdate == <<timeVars, httpVars, searchVars, vehicle_run, auth_run, login_run, upload_run, ws_run, invite_run>>
notLogin == <<timeVars, httpVars, searchVars, vehicle_run, auth_run, update_run, upload_run, ws_run, invite_run>>
notUpload == <<timeVars, httpVars, searchVars, vehicle_run, auth_run, update_run, login_run, ws_run, invite_run>>
notWs == <<timeVars, httpVars, searchVars, vehicle_run, auth_run, update_run, login_run, upload_run, invite_run>>
notInvite == <<timeVars, httpVars, searchVars, vehicle_run, auth_run, update_run, login_run, upload_run, ws_run>>
vars == <<timeVars, httpVars, searchVars, vehicle_run, auth_run, update_run, login_run, upload_run, ws_run, invite_run>>

----------------------------------------------------------------------------
(* Bounds of the model.                                                    *)

MaxTimeLen == 6
MaxTermLen == 3
MaxEnvLen == 3
MaxKeyLen == 2

----------------------------------------------------------------------------
(* Characters and strings.                                                 *)

Digits == {"0", "1", "2", "3", "4", "5", "6", "7", "8", "9"}

\* The characters time strings are drawn from: digits on both sides of the
\* hour and minute limits, the separator, and whitespace.
TimeChars == {"0", "2", "3", "6", ":", " "}

Whitespace == {" "}

SeqsUpTo(S, n) == UNION {[1..k -> S] : k \in 0..n}

DigitVal(c) ==
    CASE c = "0" -> 0 [] c = "1" -> 1 [] c = "2" -> 2 [] c = "3" -> 3 [] c = "4" -> 4
      [] c = "5" -> 5 [] c = "6" -> 6 [] c = "7" -> 7 [] c = "8" -> 8 [] c = "9" -> 9

DigitChar(n) ==
    CASE n = 0 -> "0" [] n = 1 -> "1" [] n = 2 -> "2" [] n = 3 -> "3" [] n = 4 -> "4"
      [] n = 5 -> "5" [] n = 6 -> "6" [] n = 7 -> "7" [] n = 8 -> "8" [] n = 9 -> "9"

\* str.strip(): leading and trailing whitespace removed.
RECURSIVE LStrip(_)
LStrip(s) == IF s # <<>> /\ Head(s) \in Whitespace THEN LStrip(Tail(s)) ELSE s

RECURSIVE RStrip(_)
RStrip(s) ==
    IF s # <<>> /\ s[Len(s)] \in Whitespace THEN RStrip(SubSeq(s, 1, Len(s) - 1)) ELSE s

Strip(s) == RStrip(LStrip(s))

\* str.split(':'): the pieces between the separators.
RECURSIVE SplitColon(_)
SplitColon(s) ==
    IF \A i \in 1..Len(s) : s[i] # ":" THEN <<s>>
    ELSE LET k == CHOOSE i \in 1..Len(s) : s[i] = ":" /\ \A j \in 1..(i - 1) : s[j] # ":"
         IN  <<SubSeq(s, 1, k - 1)>> \o SplitColon(SubSeq(s, k + 1, Len(s)))

\* int(text) of a string of ASCII digits; anything else is a ValueError.
IsInt(s) == s # <<>> /\ \A i \in 1..Len(s) : s[i] \in Digits

RECURSIVE IntOf(_)
IntOf(s) == IF s = <<>> THEN 0 ELSE 10 * IntOf(SubSeq(s, 1, Len(s) - 1)) + DigitVal(s[Len(s)])

\* The decimal digits of n, without padding.
RECURSIVE Decimal(_)
Decimal(n) == IF n < 10 THEN <<DigitChar(n)>> ELSE Append(Decimal(n \div 10), DigitChar(n % 10))

\* f"{n:02d}": at least two digits, padded with zeros on the left.
Format02d(n) == IF n < 10 THEN <<"0", DigitChar(n)>> ELSE Decimal(n)

----------------------------------------------------------------------------
(* validate_time_format                                                    *)

\* The first alternative of the pattern, [01]?[0-9].
HourAlt1(h) ==
    \/ Len(h) = 1 /\ h[1] \in Digits
    \/ Len(h) = 2 /\ h[1] \in {"0", "1"} /\ h[2] \in Digits

\* The second alternative, 2[0-3].
HourAlt2(h) == Len(h) = 2 /\ h[1] = "2" /\ h[2] \in {"0", "1", "2", "3"}

\* re.match(r'^([01]?[0-9]|2[0-3]):[0-5][0-9]$', s) on a stripped string (a
\* stripped string has no trailing newline for '$' to skip).
PatternMatch_NoTwenties(s) ==
    \E n \in 1..2 :
        /\ Len(s) = n + 3
        /\ HourAlt1(SubSeq(s, 1, n))
        /\ s[n + 1] = ":"
        /\ s[n + 2] \in {"0", "1", "2", "3", "4", "5"}
        /\ s[n + 3] \in Digits

PatternMatch(s) ==
    \E n \in 1..2 :
        /\ Len(s) = n + 3
        /\ (HourAlt1(SubSeq(s, 1, n)) \/ HourAlt2(SubSeq(s, 1, n)))
        /\ s[n + 1] = ":"
        /\ s[n + 2] \in {"0", "1", "2", "3", "4", "5"}
        /\ s[n + 3] \in Digits

Returned(v) == [kind |-> "return", value |-> v, status |-> 200]
HTTPException(code) == [kind |-> "http", value |-> <<>>, status |-> code]
Pending == [kind |-> "pending", value |-> <<>>, status |-> 0]

\* The tail of validate_time_format: split, int(), the range checks, the format.
ParseAndFormat(s) ==
    LET parts == SplitColon(s)
    IN  IF Len(parts) # 2 \/ ~IsInt(parts[1]) \/ ~IsInt(parts[2])
        THEN HTTPException(400)                         \* ValueError
        ELSE LET hours_int == IntOf(parts[1])
                 minutes_int == IntOf(parts[2])
             IN  IF hours_int < 0 \/ hours_int > 23 THEN HTTPException(400)
                 ELSE IF minutes_int < 0 \/ minutes_int > 59 THEN HTTPException(400)
                 ELSE Returned(Format02d(hours_int) \o <<":">> \o Format02d(minutes_int))

\* The length test of validate_time_format.
LengthOk(s) == Len(s) = 5

\* The first test of validate_time_format, and the same test with the empty
\* string alone let through.
IsBlank_EmptyOnly(s) == s = <<>>

IsBlank(s) == s = <<>> \/ Strip(s) = <<>>

validate_time_format(ts) ==
    IF IsBlank(ts) THEN Returned(<<>>)                  \* "Empty is allowed"
    ELSE LET s == Strip(ts)
         IN  IF ~LengthOk(s) THEN HTTPException(400)
             ELSE IF ~PatternMatch(s) THEN HTTPException(400)
             ELSE IF s[3] # ":" THEN HTTPException(400)
             ELSE ParseAndFormat(s)

----------------------------------------------------------------------------
(* The HTTP facade: one request through an endpoint handler.               *)

Endpoints == {"visitors_get", "vehicles_add", "credentials_add",
              "credentials_update", "visitors_invite", "sheets_create"}

\* A form value: not sent, sent as whitespace only, or sent with text.
Presence == {"absent", "blank", "value"}

\* The time strings requests carry: none, whitespace, a valid and a malformed one.
ValidTime == <<"2", "3", ":", "0", "6">>
BadTime == <<"2", "6", ":", "0", "0">>
ReqTimes == {<<>>, <<" ">>, ValidTime, BadTime}

NoRequest ==
    [endpoint |-> "none", search_term |-> "absent", detail |-> "absent",
     vin |-> "absent", number_plate |-> "absent", unique_identifier |-> "absent",
     reader_type |-> "absent", location |-> "absent",
     active_time |-> <<>>, expiry_time |-> <<>>]

Requests ==
    {[NoRequest EXCEPT !.endpoint = "visitors_get", !.search_term = s] :
        s \in {"absent", "value"}}
    \cup {[NoRequest EXCEPT !.endpoint = "sheets_create"]}
    \cup {[NoRequest EXCEPT !.endpoint = "vehicles_add", !.search_term = s,
                            !.vin = v, !.number_plate = p] :
        s \in {"absent", "value"}, v \in Presence, p \in Presence}
    \cup {[NoRequest EXCEPT !.endpoint = "credentials_add", !.search_term = s,
                            !.reader_type = r, !.unique_identifier = u,
                            !.active_time = a, !.expiry_time = x] :
        s \in {"absent", "value"}, r \in {"absent", "value"}, u \in Presence,
        a \in ReqTimes, x \in ReqTimes}
    \cup {[NoRequest EXCEPT !.endpoint = "credentials_update", !.search_term = s,
                            !.detail = d, !.active_time = a, !.expiry_time = x] :
        s \in {"absent", "value"}, d \in {"absent", "value"},
        a \in ReqTimes, x \in ReqTimes}
    \cup {[NoRequest EXCEPT !.endpoint = "visitors_invite", !.search_term = s,
                            !.location = l, !.active_time = a, !.expiry_time = x] :
        s \in {"absent", "value"}, l \in {"absent", "value"},
        a \in ReqTimes, x \in ReqTimes}

NoExc == [kind |-> "none", value |-> <<>>, status |-> 0]
PyException == [kind |-> "exception", value |-> <<>>, status |-> 0]

\* The handlers that end with "except HTTPException: raise" before
\* "except Exception"; the others turn every exception into a 500.
HasHttpPassThrough(e) ==
    e \in {"vehicles_add", "credentials_add", "credentials_update", "visitors_invite"}

HandlerExcept(e, x) ==
    IF x.kind = "http" /\ HasHttpPassThrough(e) THEN x ELSE HTTPException(500)

\* "if value and str(value).strip()": the form value counts only with text in it.
Provided_Raw(p) == p # "absent"

Provided(p) == p = "value"

\* The time fields of the credential endpoints: validated when not blank.
TimeFieldCheck(v) ==
    IF v = <<>> \/ Strip(v) = <<>> THEN Returned(<<>>)
    ELSE validate_time_format(Strip(v))

Passed(d) == [kind |-> "pass", value |-> d, status |-> 0]

CredentialTimes(r) ==
    LET a == TimeFieldCheck(r.active_time)
        x == TimeFieldCheck(r.expiry_time)
    IN  IF a.kind = "http" THEN a
        ELSE IF x.kind = "http" THEN x
        ELSE Passed([r EXCEPT !.active_time = a.value, !.expiry_time = x.value])

MissingCredentials(c) == ~c.has_credentials

\* The part of each handler that runs before the driver is started: what it
\* raises, or the data it hands to the workflow.
ValidateRequest(r, c) ==
    CASE r.endpoint = "visitors_get" ->
            IF MissingCredentials(c) THEN HTTPException(500) ELSE Passed(r)
      [] r.endpoint = "sheets_create" -> Passed(r)
      [] r.endpoint = "vehicles_add" ->
            IF r.search_term = "absent" THEN HTTPException(400)
            ELSE IF ~Provided(r.vin) /\ ~Provided(r.number_plate) THEN HTTPException(400)
            ELSE IF MissingCredentials(c) THEN HTTPException(500)
            ELSE Passed(r)
      [] r.endpoint = "credentials_add" ->
            IF r.search_term = "absent" THEN HTTPException(400)
            ELSE LET t == CredentialTimes(r)
                 IN  IF t.kind = "http" THEN t
                     ELSE IF ~Provided(r.reader_type) THEN HTTPException(400)
                     ELSE IF MissingCredentials(c) THEN HTTPException(500)
                     ELSE t
      [] r.endpoint = "credentials_update" ->
            IF r.search_term = "absent" THEN HTTPException(400)
            ELSE IF r.detail = "absent" THEN HTTPException(400)
            ELSE LET t == CredentialTimes(r)
                 IN  IF t.kind = "http" THEN t
                     ELSE IF MissingCredentials(c) THEN HTTPException(500)
                     ELSE t
      [] r.endpoint = "visitors_invite" ->
            IF r.search_term = "absent" THEN HTTPException(400)
            ELSE IF r.location = "absent" THEN HTTPException(400)
            ELSE IF MissingCredentials(c) THEN HTTPException(500)
            ELSE Passed(r)

----------------------------------------------------------------------------
(* Driver provisioning.                                                    *)

\* The calls of start_driver in order; the browser session exists once
\* webdriver.Chrome has returned.
StartDriverSteps ==
    <<"install", "chrome", "implicitly_wait", "set_page_load_timeout", "set_script_timeout">>

\* start_driver_lambda inside Lambda.
StartDriverLambdaSteps == <<"chrome", "set_page_load_timeout", "implicitly_wait">>

StepIndex(steps, s) == CHOOSE i \in 1..Len(steps) : steps[i] = s

\* What a provisioning call does when its step fail_at raises ("none": no step
\* raises): whether a session was created, and whether the handle is returned.
\* Neither function closes the session it created before it re-raises.
ProvisionOutcome(steps, fail_at) ==
    [created  |-> fail_at = "none" \/ StepIndex(steps, fail_at) > StepIndex(steps, "chrome"),
     returned |-> fail_at = "none"]

start_driver(fail_at) == ProvisionOutcome(StartDriverSteps, fail_at)

start_driver_lambda(fail_at) == ProvisionOutcome(StartDriverLambdaSteps, fail_at)

UsesGetDriver(e) == e \in {"visitors_get", "sheets_create"}

\* get_driver, or the direct start_driver call of the other handlers.
AcquireSteps(e, c) ==
    IF UsesGetDriver(e) /\ c.is_lambda THEN StartDriverLambdaSteps ELSE StartDriverSteps

AcquireOutcome(e, c, fail_at) ==
    IF UsesGetDriver(e) /\ c.is_lambda THEN start_driver_lambda(fail_at)
    ELSE start_driver(fail_at)

StepSet(steps) == {steps[i] : i \in 1..Len(steps)}

----------------------------------------------------------------------------
(* Workflows.  A workflow is a fixed sequence of stages; the environment   *)
(* chooses the stage whose element lookup raises (fail_at), if any.        *)

Min(S) == CHOOSE m \in S : \A n \in S : m <= n

Write(field, value) == [field |-> field, value |-> value]

\* CredentialAutomation.add_credential and add_credential_to_visitor.
CredentialAddStages ==
    <<"navigate", "tab", "add_button", "reader_type", "unique_identifier",
      "active_time", "expiry_time", "status", "access_control_lists", "save">>

\* A stage is skipped when the credential has no value for its field.
CredentialStageApplies(stage, d) ==
    CASE stage = "active_time" -> d.active_time # <<>>
      [] stage = "expiry_time" -> d.expiry_time # <<>>
      [] OTHER -> TRUE

\* "if credential_data.unique_identifier: ... else: return False", and the
\* same stage without the else branch.
UniqueIdentifierMissing_Ignored(d) == FALSE

UniqueIdentifierMissing(d) == ~Provided(d.unique_identifier)

CredentialStops(stage, d, fail_at) ==
    \/ stage = fail_at
    \/ stage = "unique_identifier" /\ UniqueIdentifierMissing(d)

CredentialFieldValue(stage, d) ==
    CASE stage = "active_time" -> d.active_time
      [] stage = "expiry_time" -> d.expiry_time
      [] OTHER -> <<"v">>

CredentialFillStages ==
    {"reader_type", "unique_identifier", "active_time", "expiry_time", "status"}

\* Every exception inside is caught and turned into False; the save button
\* is clicked only when every stage before it went through, and a click
\* always reports True.
add_credential(d, fail_at) ==
    LET order == CredentialAddStages
        stops == {i \in 1..Len(order) :
                     CredentialStageApplies(order[i], d)
                     /\ CredentialStops(order[i], d, fail_at)}
        stop  == IF stops = {} THEN Len(order) + 1 ELSE Min(stops)
        done  == {order[i] : i \in {j \in 1..(stop - 1) : CredentialStageApplies(order[j], d)}}
    IN  [success |-> stop = Len(order) + 1,
         raised  |-> FALSE,
         writes  |-> {Write(s, CredentialFieldValue(s, d)) : s \in done \cap CredentialFillStages},
         saves   |-> IF stop = Len(order) + 1 THEN 1 ELSE 0]

\* CredentialAutomation.update_credential: the same shape, on the edit form.
CredentialUpdateStages ==
    <<"navigate", "tab", "search_credential", "edit_button",
      "active_time", "expiry_time", "status", "save">>

update_credential(d, fail_at) ==
    LET order == CredentialUpdateStages
        stops == {i \in 1..Len(order) :
                     CredentialStageApplies(order[i], d) /\ order[i] = fail_at}
        stop  == IF stops = {} THEN Len(order) + 1 ELSE Min(stops)
        done  == {order[i] : i \in {j \in 1..(stop - 1) : CredentialStageApplies(order[j], d)}}
    IN  [success |-> stop = Len(order) + 1,
         raised  |-> FALSE,
         writes  |-> {Write(s, CredentialFieldValue(s, d)) :
                         s \in done \cap {"active_time", "expiry_time", "status"}},
         saves   |-> IF stop = Len(order) + 1 THEN 1 ELSE 0]

\* InvitationAutomation.invite_visitor: a failing search, navigation, tab,
\* form or button raises; a failing form field is logged and skipped.
InviteStages ==
    <<"search", "navigate", "invite_tab", "invite_form",
      "activateTime", "expiryTime", "generate">>

InviteFieldStages == {"activateTime", "expiryTime"}

InviteStageApplies(stage, d) ==
    CASE stage = "activateTime" -> d.active_time # <<>>
      [] stage = "expiryTime" -> d.expiry_time # <<>>
      [] OTHER -> TRUE

InviteFieldValue(stage, d) ==
    IF stage = "activateTime" THEN d.active_time ELSE d.expiry_time

invite_visitor(d, fail_at) ==
    LET order == InviteStages
        stops == {i \in 1..Len(order) : order[i] = fail_at /\ order[i] \notin InviteFieldStages}
        stop  == IF stops = {} THEN Len(order) + 1 ELSE Min(stops)
        done  == {order[i] : i \in {j \in 1..(stop - 1) :
                     InviteStageApplies(order[j], d) /\ order[j] # fail_at}}
    IN  [success |-> stop = Len(order) + 1,
         raised  |-> stop # Len(order) + 1,
         writes  |-> {Write(s, InviteFieldValue(s, d)) : s \in done \cap InviteFieldStages},
         saves   |-> IF stop = Len(order) + 1 THEN 1 ELSE 0]

\* The workflows whose stages the handler model does not look into: they
\* return a success result, return a failure result, or raise.
OpaqueOutcomes(e) ==
    CASE e = "vehicles_add" -> {"success", "failure", "raised"}
      [] e = "visitors_get" -> {"success", "raised"}
      [] e = "sheets_create" -> {"success", "raised"}

OpaqueWorkflow(o) ==
    [success |-> o = "success", raised |-> o = "raised", writes |-> {}, saves |-> 0]

\* The status a handler gives a workflow result that reports failure.
FailureStatus(e) == 400

----------------------------------------------------------------------------
(* The handler, step by step.                                              *)

InitHttp ==
    /\ config \in [is_lambda : BOOLEAN, has_credentials : BOOLEAN]
    /\ req = NoRequest
    /\ data = NoRequest
    /\ pc = "idle"
    /\ driver = "None"
    /\ exc = NoExc
    /\ wf_result = "none"
    /\ start_driver_calls = 0
    /\ sessions_open = 0
    /\ quit_calls = 0
    /\ quit_raised = FALSE
    /\ dom_writes = {}
    /\ save_clicks = 0
    /\ response = 0

\* A request arrives (authentication has admitted it).
Receive ==
    /\ pc = "idle"
    /\ req' \in Requests
    /\ pc' = "validate"
    /\ UNCHANGED <<config, data, driver, exc, wf_result, start_driver_calls,
                   sessions_open, quit_calls, quit_raised, dom_writes, save_clicks, response>>
    /\ UNCHANGED notHttp

\* The handler's checks before the driver is started.
Validate ==
    /\ pc = "validate"
    /\ LET v == ValidateRequest(req, config)
       IN  IF v.kind = "http"
           THEN /\ exc' = HandlerExcept(req.endpoint, v)
                /\ pc' = "finally"
                /\ UNCHANGED data
           ELSE /\ data' = v.value
                /\ pc' = "acquire"
                /\ UNCHANGED exc
    /\ UNCHANGED <<config, req, driver, wf_result, start_driver_calls,
                   sessions_open, quit_calls, quit_raised, dom_writes, save_clicks, response>>
    /\ UNCHANGED notHttp

\* driver = start_driver(...) or get_driver().
Acquire ==
    /\ pc = "acquire"
    /\ \E fail_at \in StepSet(AcquireSteps(req.endpoint, config)) \cup {"none"} :
         LET o == AcquireOutcome(req.endpoint, config, fail_at)
         IN  /\ start_driver_calls' = start_driver_calls + 1
             /\ sessions_open' = sessions_open + (IF o.created THEN 1 ELSE 0)
             /\ IF o.returned
                THEN /\ driver' = "handle"
                     /\ pc' = IF req.endpoint = "visitors_invite" THEN "workflow" ELSE "login"
                     /\ UNCHANGED exc
                ELSE /\ exc' = HandlerExcept(req.endpoint, PyException)
                     /\ pc' = "finally"
                     /\ UNCHANGED driver
    /\ UNCHANGED <<config, req, data, wf_result, quit_calls, quit_raised, dom_writes,
                   save_clicks, response>>
    /\ UNCHANGED notHttp

\* await login.login(...): get_visitors wraps a failure in a 401 of its own.
LoginFailure(e) == IF e = "visitors_get" THEN HTTPException(401) ELSE PyException

Login ==
    /\ pc = "login"
    /\ \E ok \in BOOLEAN :
         IF ok
         THEN pc' = "workflow" /\ UNCHANGED exc
         ELSE /\ exc' = HandlerExcept(req.endpoint, LoginFailure(req.endpoint))
              /\ pc' = "finally"
    /\ UNCHANGED <<config, req, data, driver, wf_result, start_driver_calls,
                   sessions_open, quit_calls, quit_raised, dom_writes, save_clicks, response>>
    /\ UNCHANGED notHttp

\* What the workflow's result becomes in the handler.
Finish(e, r) ==
    /\ wf_result' = IF r.raised THEN "raised" ELSE IF r.success THEN "success" ELSE "failure"
    /\ dom_writes' = dom_writes \cup r.writes
    /\ save_clicks' = save_clicks + r.saves
    /\ exc' = IF r.raised THEN HandlerExcept(e, PyException)
              ELSE IF r.success THEN NoExc
              ELSE HandlerExcept(e, HTTPException(FailureStatus(e)))
    /\ pc' = "finally"

RunCredentialAdd ==
    /\ pc = "workflow" /\ req.endpoint = "credentials_add"
    /\ \E found \in BOOLEAN, fail_at \in StepSet(CredentialAddStages) \cup {"none"} :
         IF ~found
         THEN \* search_visitor_for_credentials found nobody
              /\ exc' = HandlerExcept(req.endpoint, HTTPException(404))
              /\ pc' = "finally"
              /\ UNCHANGED <<wf_result, dom_writes, save_clicks>>
         ELSE Finish(req.endpoint, add_credential(data, fail_at))
    /\ UNCHANGED <<config, req, data, driver, start_driver_calls, sessions_open,
                   quit_calls, quit_raised, response>>
    /\ UNCHANGED notHttp

RunCredentialUpdate ==
    /\ pc = "workflow" /\ req.endpoint = "credentials_update"
    /\ \E fail_at \in StepSet(CredentialUpdateStages) \cup {"none"} :
         Finish(req.endpoint, update_credential(data, fail_at))
    /\ UNCHANGED <<config, req, data, driver, start_driver_calls, sessions_open,
                   quit_calls, quit_raised, response>>
    /\ UNCHANGED notHttp

RunInvite ==
    /\ pc = "workflow" /\ req.endpoint = "visitors_invite"
    /\ \E fail_at \in StepSet(InviteStages) \cup {"none"} :
         Finish(req.endpoint, invite_visitor(data, fail_at))
    /\ UNCHANGED <<config, req, data, driver, start_driver_calls, sessions_open,
                   quit_calls, quit_raised, response>>
    /\ UNCHANGED notHttp

RunOpaque ==
    /\ pc = "workflow"
    /\ req.endpoint \in {"vehicles_add", "visitors_get", "sheets_create"}
    /\ \E o \in OpaqueOutcomes(req.endpoint) : Finish(req.endpoint, OpaqueWorkflow(o))
    /\ UNCHANGED <<config, req, data, driver, start_driver_calls, sessions_open,
                   quit_calls, quit_raised, response>>
    /\ UNCHANGED notHttp

\* The handlers whose finally block wraps driver.quit() in try/except.
QuitGuarded(e) == e # "sheets_create"

\* The finally block: quit when a driver was obtained, on every path, and
\* the same block skipped when an exception is leaving the try statement.
MustQuit_OnSuccessOnly(d, x) == d = "handle" /\ x.kind = "none"

MustQuit(d, x) == d = "handle"

Finally ==
    /\ pc = "finally"
    /\ IF MustQuit(driver, exc)
       THEN /\ quit_calls' = quit_calls + 1
            /\ \E quit_ok \in BOOLEAN :
                 /\ quit_raised' = ~quit_ok
                 /\ IF quit_ok
                    THEN sessions_open' = sessions_open - 1 /\ UNCHANGED exc
                    ELSE /\ UNCHANGED sessions_open
                         /\ exc' = IF QuitGuarded(req.endpoint) THEN exc
                                   ELSE HTTPException(500)
       ELSE UNCHANGED <<quit_calls, quit_raised, sessions_open, exc>>
    /\ pc' = "respond"
    /\ UNCHANGED <<config, req, data, driver, wf_result, start_driver_calls,
                   dom_writes, save_clicks, response>>
    /\ UNCHANGED notHttp

\* The response leaves: the return value's 200 or the exception's status.
Respond ==
    /\ pc = "respond"
    /\ response' = IF exc.kind = "none" THEN 200 ELSE exc.status
    /\ pc' = "done"
    /\ UNCHANGED <<config, req, data, driver, exc, wf_result, start_driver_calls,
                   sessions_open, quit_calls, quit_raised, dom_writes, save_clicks>>
    /\ UNCHANGED notHttp

NextHttp ==
    \/ Receive
    \/ Validate
    \/ Acquire
    \/ Login
    \/ RunCredentialAdd
    \/ RunCredentialUpdate
    \/ RunInvite
    \/ RunOpaque
    \/ Finally
    \/ Respond

----------------------------------------------------------------------------
(* Entity search: VisitorSearchAutomation.                                 *)

\* The characters search terms are drawn from: one letter in both cases, and
\* the space that separates name parts.
TermChars == {"a", "A", " "}

LowerOf(c) == CASE c = "A" -> "a" [] c = "B" -> "b" [] OTHER -> c
UpperOf(c) == CASE c = "a" -> "A" [] c = "b" -> "B" [] OTHER -> c
IsLetter(c) == c \in {"a", "A", "b", "B"}

\* str.lower(), str.upper(), str.title().
Lower(s) == [i \in 1..Len(s) |-> LowerOf(s[i])]
Upper(s) == [i \in 1..Len(s) |-> UpperOf(s[i])]
Title(s) ==
    [i \in 1..Len(s) |->
        IF i > 1 /\ IsLetter(s[i - 1]) THEN LowerOf(s[i]) ELSE UpperOf(s[i])]

\* str.split(): the maximal runs without whitespace.
RECURSIVE Split(_)
Split(s) ==
    LET t == LStrip(s)
    IN  IF t = <<>> THEN <<>>
        ELSE LET ends == {i \in 1..Len(t) : t[i] \in Whitespace}
                 k == IF ends = {} THEN Len(t) + 1
                      ELSE CHOOSE i \in ends : \A j \in ends : i <= j
             IN  <<SubSeq(t, 1, k - 1)>> \o Split(SubSeq(t, k, Len(t)))

\* "sub in s" on strings.
Contains(s, sub) ==
    \E i \in 0..(Len(s) - Len(sub)) : SubSeq(s, i + 1, i + Len(sub)) = sub

\* The visitors of the target site.
VisitorA == [uuid |-> "u1", first_name |-> <<"A">>, last_name |-> <<"a">>]
VisitorB == [uuid |-> "u2", first_name |-> <<"b">>, last_name |-> <<"B">>]
Visitors == {VisitorA, VisitorB}

\* Rows of the result table: the "No matching records found" placeholder, a
\* visitor's row with its edit link, a row without an edit link, a row with
\* an edit link whose text holds the placeholder's words, a row without cells.
PlaceholderRow == [placeholder |-> TRUE, cols |-> 1, has_link |-> FALSE, uuid |-> "",
                   first_name |-> <<>>, last_name |-> <<>>]
DataRow(v) == [placeholder |-> FALSE, cols |-> 4, has_link |-> TRUE, uuid |-> v.uuid,
               first_name |-> v.first_name, last_name |-> v.last_name]
NoLinkRow == [placeholder |-> FALSE, cols |-> 4, has_link |-> FALSE, uuid |-> "",
              first_name |-> <<"A">>, last_name |-> <<"a">>]
LinkedPlaceholderRow(v) ==
    [placeholder |-> TRUE, cols |-> 4, has_link |-> TRUE, uuid |-> v.uuid,
     first_name |-> v.first_name, last_name |-> v.last_name]
EmptyRow == [placeholder |-> FALSE, cols |-> 0, has_link |-> FALSE, uuid |-> "",
             first_name |-> <<>>, last_name |-> <<>>]

\* The tables the site shows for a term it matches, and for one it does not.
MatchTables ==
    {<<DataRow(v)>> : v \in Visitors} \cup {<<DataRow(VisitorA), PlaceholderRow>>}

NoMatchTables ==
    {<<>>, <<PlaceholderRow>>, <<NoLinkRow>>, <<EmptyRow>>, <<LinkedPlaceholderRow(VisitorA)>>}

None == [found |-> FALSE, uuid |-> "", first_name |-> <<>>, last_name |-> <<>>]
VisitorData(row) == [found |-> TRUE, uuid |-> row.uuid,
                     first_name |-> row.first_name, last_name |-> row.last_name]

Return(v) == [kind |-> "return", value |-> v]
Raise == [kind |-> "raise", value |-> None]

\* What can go wrong inside one search: a progress send raises, or the site
\* fails the search (a redirect to /login, an element wait that times out).
SearchFaults == {"none", "send", "timeout"}

\* The placeholder test of search_visitor_by_term, and the function without
\* that test.
IsPlaceholderTable_Never(rows) == FALSE

IsPlaceholderTable(rows) == Len(rows) = 1 /\ rows[1].placeholder

\* Lines 69-128: reading the result table.
ReadTable(rows) ==
    IF rows = <<>> THEN Return(None)
    ELSE IF IsPlaceholderTable(rows) THEN Return(None)
    ELSE IF rows[1].cols >= 1
         THEN IF rows[1].has_link /\ rows[1].uuid # ""
              THEN Return(VisitorData(rows[1]))
              ELSE Return(None)
         ELSE Return(None)

\* The body of search_visitor_by_term inside its try statement.
SearchBody(rows, fault) == IF fault # "none" THEN Raise ELSE ReadTable(rows)

\* "except Exception: return None", and the same function without it.
search_visitor_by_term_NoCatch(rows, fault) == SearchBody(rows, fault)

search_visitor_by_term(rows, fault) ==
    LET r == SearchBody(rows, fault)
    IN  IF r.kind = "raise" THEN Return(None) ELSE r

\* The case variations tried after the exact term, in order.
Variations(term) ==
    (IF term # Lower(term) THEN <<Lower(term)>> ELSE <<>>)
    \o (IF term # Title(term) THEN <<Title(term)>> ELSE <<>>)
    \o (IF term # Upper(term) THEN <<Upper(term)>> ELSE <<>>)

\* "if ' ' in search_term.strip()".
HasNameParts(term) == \E i \in 1..Len(Strip(term)) : Strip(term)[i] = " "

\* "any(part.lower() in full_name for part in parts)", and the acceptance of
\* a token-based result without that test.
TokenInName_Always(term, v) == TRUE

TokenInName(term, v) ==
    LET parts == Split(Strip(term))
        full_name == Lower(v.first_name \o <<" ">> \o v.last_name)
    IN  \E i \in 1..Len(parts) : Contains(full_name, Lower(parts[i]))

\* Every term one case-insensitive search can send to the site.
SearchableTerms(term) ==
    {term, Lower(term), Title(term), Upper(term)}
    \cup (IF HasNameParts(term)
          THEN {Split(Strip(term))[1], Split(Strip(term))[Len(Split(Strip(term)))]}
          ELSE {})

TablesFor(term) == IF term \in site_matches THEN MatchTables ELSE NoMatchTables

\* The faults the environment can raise: a send can fail only with a
\* listener attached.
FaultsNow == IF websocket = "None" THEN SearchFaults \ {"send"} ELSE SearchFaults

InitSearch ==
    /\ search_term \in SeqsUpTo(TermChars, MaxTermLen)
    /\ site_matches \in SUBSET SearchableTerms(search_term)
    /\ websocket \in {"None", "listener"}
    /\ search_pc = "start"
    /\ pending = <<>>
    /\ calls = <<>>
    /\ last_table = <<>>
    /\ last_result = Return(None)
    /\ only_zero_rows = TRUE
    /\ send_failed = FALSE
    /\ site_failed = FALSE
    /\ search_result = Return(None)

\* One call of search_visitor_by_term from search_visitor_case_insensitive:
\* the site shows a table for the term, the call returns.
CallSearch(term, rows, fault) ==
    /\ calls' = Append(calls, [term |-> term,
                               found |-> search_visitor_by_term(rows, fault).value.found])
    /\ last_table' = rows
    /\ last_result' = search_visitor_by_term(rows, fault)
    /\ only_zero_rows' = (only_zero_rows /\ rows = <<>>)
    /\ send_failed' = (send_failed \/ fault = "send")
    /\ site_failed' = (site_failed \/ fault = "timeout")

\* Where search_visitor_case_insensitive goes after the case variations.
AfterVariations(term) == IF HasNameParts(term) THEN "first_name" ELSE "done"

\* update_progress(5, ...) at the top: a failing send ends the search in the
\* outer except clause.
SearchStart ==
    /\ search_pc = "start"
    /\ \E fault \in FaultsNow \cap {"none", "send"} :
         /\ send_failed' = (fault = "send")
         /\ search_pc' = IF fault = "none" THEN "exact" ELSE "done"
    /\ search_result' = Return(None)
    /\ UNCHANGED <<search_term, site_matches, websocket, pending, calls, last_table,
                   last_result, only_zero_rows, site_failed>>
    /\ UNCHANGED notSearch

\* "result = await self.search_visitor_by_term(search_term)".
SearchExact ==
    /\ search_pc = "exact"
    /\ \E rows \in TablesFor(search_term), fault \in FaultsNow :
         LET r == search_visitor_by_term(rows, fault)
         IN  /\ CallSearch(search_term, rows, fault)
             /\ IF r.kind = "raise"
                THEN search_pc' = "done" /\ search_result' = Return(None) /\ UNCHANGED pending
                ELSE IF r.value.found
                THEN search_pc' = "done" /\ search_result' = r /\ UNCHANGED pending
                ELSE /\ pending' = Variations(search_term)
                     /\ search_pc' = IF Variations(search_term) # <<>> THEN "variations"
                                     ELSE AfterVariations(search_term)
                     /\ UNCHANGED search_result
    /\ UNCHANGED <<search_term, site_matches, websocket>>
    /\ UNCHANGED notSearch

\* One turn of "for variation in variations_to_try".
SearchVariation ==
    /\ search_pc = "variations"
    /\ \E rows \in TablesFor(Head(pending)), fault \in FaultsNow :
         LET r == search_visitor_by_term(rows, fault)
         IN  /\ CallSearch(Head(pending), rows, fault)
             /\ IF r.kind = "raise"
                THEN search_pc' = "done" /\ search_result' = Return(None) /\ UNCHANGED pending
                ELSE IF r.value.found
                THEN search_pc' = "done" /\ search_result' = r /\ UNCHANGED pending
                ELSE /\ pending' = Tail(pending)
                     /\ search_pc' = IF Tail(pending) # <<>> THEN "variations"
                                     ELSE AfterVariations(search_term)
                     /\ UNCHANGED search_result
    /\ UNCHANGED <<search_term, site_matches, websocket>>
    /\ UNCHANGED notSearch

\* "Try first name only": a result counts only with a token of the term in
\* its name.
SearchFirstName ==
    /\ search_pc = "first_name"
    /\ LET first_name == Split(Strip(search_term))[1]
       IN  \E rows \in TablesFor(first_name), fault \in FaultsNow :
             LET r == search_visitor_by_term(rows, fault)
             IN  /\ CallSearch(first_name, rows, fault)
                 /\ IF r.kind = "raise"
                    THEN search_pc' = "done" /\ search_result' = Return(None)
                    ELSE IF r.value.found /\ TokenInName(search_term, r.value)
                    THEN search_pc' = "done" /\ search_result' = r
                    ELSE /\ search_pc' = IF Len(Split(Strip(search_term))) >= 2
                                         THEN "last_name" ELSE "done"
                         /\ UNCHANGED search_result
    /\ UNCHANGED <<search_term, site_matches, websocket, pending>>
    /\ UNCHANGED notSearch

\* "Try last name only".
SearchLastName ==
    /\ search_pc = "last_name"
    /\ LET parts == Split(Strip(search_term))
           last_name == parts[Len(parts)]
       IN  \E rows \in TablesFor(last_name), fault \in FaultsNow :
             LET r == search_visitor_by_term(rows, fault)
             IN  /\ CallSearch(last_name, rows, fault)
                 /\ IF r.kind = "raise"
                    THEN search_pc' = "done" /\ search_result' = Return(None)
                    ELSE IF r.value.found /\ TokenInName(search_term, r.value)
                    THEN search_pc' = "done" /\ search_result' = r
                    ELSE search_pc' = "done" /\ search_result' = Return(None)
    /\ UNCHANGED <<search_term, site_matches, websocket, pending>>
    /\ UNCHANGED notSearch

NextSearch ==
    \/ SearchStart
    \/ SearchExact
    \/ SearchVariation
    \/ SearchFirstName
    \/ SearchLastName

----------------------------------------------------------------------------
(* The vehicle-add workflow: VehicleAddAutomation.add_vehicle, called      *)
(* through VehicleAutomation.add_vehicle by the /vehicles/add handler.     *)

\* update_progress(percent, status): send_json is called only with a
\* listener attached, and its failure is not caught.  The second definition is
\* the method without its "if self.websocket" test.
update_progress_Unguarded(ws, send_ok) ==
    [send_json |-> TRUE, raised |-> ws = "None" \/ ~send_ok]

update_progress(ws, send_ok) ==
    [send_json |-> ws # "None", raised |-> ws # "None" /\ ~send_ok]

\* The statements of add_vehicle's try block, in order: progress pushes and
\* browser steps.
VehicleLabels ==
    <<"p0", "p5", "search", "p20", "p25", "navigate", "p35", "vehicles_tab", "p45",
      "add_button", "p55", "fill_form", "p85", "save", "p95", "verify">>

\* The same labels numbered downwards.
VehiclePercent_Countdown(l) ==
    CASE l = "p0" -> 100 [] l = "p5" -> 95 [] l = "p20" -> 85 [] l = "p25" -> 55
      [] l = "p35" -> 45 [] l = "p45" -> 35 [] l = "p55" -> 25 [] l = "p85" -> 20
      [] l = "p95" -> 5 [] OTHER -> 0

VehiclePercent(l) ==
    CASE l = "p0" -> 0 [] l = "p5" -> 5 [] l = "p20" -> 20 [] l = "p25" -> 25
      [] l = "p35" -> 35 [] l = "p45" -> 45 [] l = "p55" -> 55 [] l = "p85" -> 85
      [] l = "p95" -> 95 [] OTHER -> 100

VehiclePushLabels ==
    {"p0", "p5", "p20", "p25", "p35", "p45", "p55", "p85", "p95",
     "p100_success", "p100_unclear"}

VehicleAfter(l) ==
    CASE l = "p100_success" -> "return_success"
      [] l = "p100_unclear" -> "return_unclear"
      [] OTHER -> VehicleLabels[(CHOOSE i \in 1..Len(VehicleLabels) : VehicleLabels[i] = l) + 1]

\* Exception messages, as the parts they are put together from.
MsgNone == <<>>
MsgSendFailed == <<"WebSocketDisconnect">>
\* The messages of add_vehicle's exceptions and results, by name.
VehicleMsg(k) ==
    CASE k = "NoVisitor" -> <<"No visitor found for search term: ", "term">>
      [] k = "Timeout" -> <<"TimeoutException">>
      [] k = "VehiclesTab" -> <<"Could not find or click Vehicles tab">>
      [] k = "AddVehicleButton" -> <<"Could not find or click Add Vehicle button">>
      [] k = "SaveButton" -> <<"Could not find or click Save button">>
      [] k = "Unclear" -> <<"Vehicle addition status unclear - form submitted but unexpected redirect">>
      [] k = "Added" -> <<"Vehicle added successfully to ", "name">>

BannerText == "Number plate already exists"
MsgValidation(banner) == <<"Form validation failed: ", banner>>

\* The message a failing browser step raises.
VehicleStepMessage(l) ==
    CASE l = "navigate" -> VehicleMsg("Timeout")
      [] l = "vehicles_tab" -> VehicleMsg("VehiclesTab")
      [] l = "add_button" -> VehicleMsg("AddVehicleButton")
      [] l = "save" -> VehicleMsg("SaveButton")

\* Who runs the workflow: the /vehicles/add handler, which attaches no
\* listener, or a caller that used set_websocket.
InitVehicle ==
    \E ws \in {"None", "listener"} :
        vehicle_run = [listener |-> ws, pc |-> "p0", pushed |-> <<>>, sent |-> <<>>,
                       push_raised |-> FALSE, exc |-> MsgNone, result |-> "none",
                       message |-> MsgNone, saves |-> 0, url_ok |-> TRUE,
                       banner |-> "", found |-> "unknown", status |-> 0, detail |-> MsgNone,
                       all_pushed |-> <<>>]

VehicleIdle ==
    vehicle_run = [listener |-> "None", pc |-> "p0", pushed |-> <<>>, sent |-> <<>>,
                   push_raised |-> FALSE, exc |-> MsgNone, result |-> "none",
                   message |-> MsgNone, saves |-> 0, url_ok |-> TRUE,
                   banner |-> "", found |-> "unknown", status |-> 0, detail |-> MsgNone,
                   all_pushed |-> <<>>]

\* The sends a listener can be made to fail.
SendOutcomes(ws) == IF ws = "None" THEN {TRUE} ELSE BOOLEAN

\* One update_progress call at percent: the record after it, before control
\* moves on.
Pushed(v, percent, send_ok) ==
    LET u == update_progress(v.listener, send_ok)
    IN  [v EXCEPT !.pushed = Append(@, percent),
                  !.all_pushed = Append(@, percent),
                  !.sent = IF u.send_json THEN Append(@, percent) ELSE @,
                  !.push_raised = @ \/ u.raised]

\* "await self.update_progress(...)" inside the try block.
VehiclePush ==
    /\ vehicle_run.pc \in VehiclePushLabels
    /\ \E send_ok \in SendOutcomes(vehicle_run.listener) :
         LET u == update_progress(vehicle_run.listener, send_ok)
             v == Pushed(vehicle_run, VehiclePercent(vehicle_run.pc), send_ok)
         IN  vehicle_run' =
                IF u.raised
                THEN [v EXCEPT !.exc = MsgSendFailed, !.pc = "except"]
                ELSE [v EXCEPT !.pc = VehicleAfter(vehicle_run.pc)]
    /\ UNCHANGED notVehicle

\* search_visitor_case_insensitive calls search_visitor_by_term for the exact
\* term, up to three case variations and up to two name parts.
MaxSearchCalls == 6

RECURSIVE SearchPushes(_)
\* What the nested search pushes on the caller's listener: 5 once, then 10
\* and 50 in each of its n calls of search_visitor_by_term.
SearchPushes(n) == IF n = 0 THEN <<5>> ELSE SearchPushes(n - 1) \o <<10, 50>>

\* search_visitor_case_insensitive, and "if not visitor_data: raise".  A send
\* that raises inside the search is caught there and makes it return None.
VehicleSearch ==
    /\ vehicle_run.pc = "search"
    /\ \E found \in BOOLEAN, n \in 1..MaxSearchCalls :
       \E failed_send \in (IF vehicle_run.listener = "None" THEN {0}
                           ELSE 0..Len(SearchPushes(n))) :
         LET offered == IF failed_send = 0 THEN SearchPushes(n)
                        ELSE SubSeq(SearchPushes(n), 1, failed_send)
             arrived == IF vehicle_run.listener = "None" THEN <<>>
                        ELSE IF failed_send = 0 THEN offered
                        ELSE SubSeq(offered, 1, failed_send - 1)
             v == [vehicle_run EXCEPT !.all_pushed = @ \o offered,
                                      !.sent = @ \o arrived]
         IN  vehicle_run' =
                IF found /\ failed_send = 0
                THEN [v EXCEPT !.found = "yes", !.pc = VehicleAfter("search")]
                ELSE [v EXCEPT !.found = "no", !.exc = VehicleMsg("NoVisitor"),
                               !.pc = "except"]
    /\ UNCHANGED notVehicle

\* A browser step that raises when its element cannot be used.
VehicleStep ==
    /\ vehicle_run.pc \in {"navigate", "vehicles_tab", "add_button", "save"}
    /\ \E ok \in BOOLEAN :
         vehicle_run' =
            IF ok
            THEN [vehicle_run EXCEPT
                     !.saves = IF vehicle_run.pc = "save" THEN @ + 1 ELSE @,
                     !.pc = VehicleAfter(vehicle_run.pc)]
            ELSE [vehicle_run EXCEPT !.exc = VehicleStepMessage(vehicle_run.pc),
                                     !.pc = "except"]
    /\ UNCHANGED notVehicle

\* _fill_vehicle_form: a field that cannot be filled is logged and skipped.
VehicleFill ==
    /\ vehicle_run.pc = "fill_form"
    /\ vehicle_run' = [vehicle_run EXCEPT !.pc = VehicleAfter("fill_form")]
    /\ UNCHANGED notVehicle

\* What the check after the save click comes to: the raise for an error
\* banner is inside "try: ... except: pass".
VerifyOutcome(url_ok, banner) == IF url_ok THEN "success" ELSE "unclear"

\* The check of the page the save click led to.
VehicleVerify ==
    /\ vehicle_run.pc = "verify"
    /\ \E url_ok \in BOOLEAN, banner \in {"", BannerText} :
         LET o == VerifyOutcome(url_ok, banner)
             v == [vehicle_run EXCEPT !.url_ok = url_ok, !.banner = banner]
         IN  vehicle_run' =
                CASE o = "success" -> [v EXCEPT !.pc = "p100_success"]
                  [] o = "unclear" -> [v EXCEPT !.pc = "p100_unclear"]
                  [] o = "validation" -> [v EXCEPT !.exc = MsgValidation(banner),
                                                   !.pc = "except"]
    /\ UNCHANGED notVehicle

\* "except Exception as e: await self.update_progress(100, ...); raise" of
\* add_vehicle, then the same clause of VehicleAutomation.add_vehicle: a push
\* that raises there replaces the exception on its way out.
VehicleExcept ==
    /\ vehicle_run.pc \in {"except", "outer_except"}
    /\ \E send_ok \in SendOutcomes(vehicle_run.listener) :
         LET u == update_progress(vehicle_run.listener, send_ok)
             v == Pushed(vehicle_run, 100, send_ok)
         IN  vehicle_run' =
                [v EXCEPT !.exc = IF u.raised THEN MsgSendFailed ELSE @,
                          !.pc = IF vehicle_run.pc = "except" THEN "outer_except"
                                 ELSE "raised"]
    /\ UNCHANGED notVehicle

\* The workflow's result dictionary.
VehicleReturn ==
    /\ vehicle_run.pc \in {"return_success", "return_unclear"}
    /\ vehicle_run' =
          IF vehicle_run.pc = "return_success"
          THEN [vehicle_run EXCEPT !.result = "success", !.message = VehicleMsg("Added"),
                                   !.pc = "returned"]
          ELSE [vehicle_run EXCEPT !.result = "unclear", !.message = VehicleMsg("Unclear"),
                                   !.pc = "returned"]
    /\ UNCHANGED notVehicle

\* The /vehicles/add handler's answer: 200, HTTPException(400, message) for a
\* result without success, HTTPException(500, str(e)) for an exception.
VehicleRespond ==
    /\ vehicle_run.pc \in {"returned", "raised"}
    /\ vehicle_run' =
          IF vehicle_run.pc = "raised"
          THEN [vehicle_run EXCEPT !.result = "raised", !.message = vehicle_run.exc,
                                   !.status = 500, !.detail = vehicle_run.exc,
                                   !.pc = "done"]
          ELSE IF vehicle_run.result = "success"
          THEN [vehicle_run EXCEPT !.status = 200, !.detail = vehicle_run.message,
                                   !.pc = "done"]
          ELSE [vehicle_run EXCEPT !.status = 400, !.detail = vehicle_run.message,
                                   !.pc = "done"]
    /\ UNCHANGED notVehicle

NextVehicle ==
    \/ VehiclePush
    \/ VehicleSearch
    \/ VehicleStep
    \/ VehicleFill
    \/ VehicleVerify
    \/ VehicleExcept
    \/ VehicleReturn
    \/ VehicleRespond

----------------------------------------------------------------------------
(* Authentication: verify_auth, the dependency of every workflow endpoint. *)

KeyChars == {"a", "b"}

\* A header that is not sent, an environment variable that is not set.
NotSent == <<"None">>
NotSet == <<"unset">>

\* str.split(","): the pieces between the commas, empty pieces included.
RECURSIVE SplitComma(_)
SplitComma(s) ==
    LET commas == {i \in 1..Len(s) : s[i] = ","}
    IN  IF commas = {} THEN <<s>>
        ELSE LET k == CHOOSE i \in commas : \A j \in commas : i <= j
             IN  <<SubSeq(s, 1, k - 1)>> \o SplitComma(SubSeq(s, k + 1, Len(s)))

\* VALID_API_KEYS: os.getenv("API_KEYS", "").split(",") if os.getenv("API_KEYS")
\* else [].
ValidApiKeys(env) ==
    IF env = NotSet THEN <<>>
    ELSE IF env = <<>> THEN <<>>
    ELSE SplitComma(env)

InList(x, list) == \E i \in 1..Len(list) : list[i] = x

Admitted(auth_type) == [kind |-> "admitted", status |-> 200, auth_type |-> auth_type]
Unauthorized == [kind |-> "http", status |-> 401, auth_type |-> "none"]

\* verify_auth, and the function with its Bearer branch left out.
verify_auth_HeaderOnly(x_api_key, token, keys) ==
    IF x_api_key # NotSent /\ x_api_key # <<>> /\ InList(x_api_key, keys)
    THEN Admitted("api_key_header")
    ELSE Unauthorized

verify_auth(x_api_key, token, keys) ==
    IF x_api_key # NotSent /\ x_api_key # <<>> /\ InList(x_api_key, keys)
    THEN Admitted("api_key_header")
    ELSE IF token # NotSent /\ InList(token, keys)
    THEN Admitted("api_key_bearer")
    ELSE Unauthorized

\* The X-API-Key values a request can carry: none, empty, or a key; HTTPBearer
\* hands over a token only when the Authorization header holds one.
HeaderValues == {NotSent} \cup SeqsUpTo(KeyChars, MaxKeyLen)
BearerTokens == {NotSent} \cup (SeqsUpTo(KeyChars, MaxKeyLen) \ {<<>>})

InitAuth ==
    \E env \in {NotSet} \cup SeqsUpTo(KeyChars \cup {","}, MaxEnvLen),
       h \in HeaderValues, t \in BearerTokens :
        auth_run = [api_keys |-> env, x_api_key |-> h, token |-> t, pc |-> "auth",
                    outcome |-> [kind |-> "pending", status |-> 0, auth_type |-> "none"],
                    handler_ran |-> FALSE, start_driver_calls |-> 0]

AuthIdle ==
    auth_run = [api_keys |-> NotSet, x_api_key |-> NotSent, token |-> NotSent, pc |-> "auth",
                outcome |-> [kind |-> "pending", status |-> 0, auth_type |-> "none"],
                handler_ran |-> FALSE, start_driver_calls |-> 0]

\* The dependency runs before the handler body.
VerifyAuth ==
    /\ auth_run.pc = "auth"
    /\ LET o == verify_auth(auth_run.x_api_key, auth_run.token,
                            ValidApiKeys(auth_run.api_keys))
       IN  auth_run' = [auth_run EXCEPT !.outcome = o,
                           !.pc = IF o.kind = "admitted" THEN "handler" ELSE "done"]
    /\ UNCHANGED notAuth

\* The handler body of an admitted request: it asks for a driver unless its
\* own checks refuse the request first.
AuthHandler ==
    /\ auth_run.pc = "handler"
    /\ \E refused \in BOOLEAN :
         auth_run' = [auth_run EXCEPT !.handler_ran = TRUE,
                         !.start_driver_calls = IF refused THEN @ ELSE @ + 1,
                         !.pc = "done"]
    /\ UNCHANGED notAuth

NextAuth ==
    \/ VerifyAuth
    \/ AuthHandler

----------------------------------------------------------------------------
(* The visitor-update workflow:                                            *)
(* VisitorCreateUpdateAutomation.update_visitor_profile, called by the     *)
(* /visitors/update handler.                                               *)

UpdateLabels ==
    <<"p5", "p10", "search", "p20", "navigate", "p30", "profile_tab", "p40",
      "fields", "p80", "uploads", "p90", "save", "p95", "p100", "return_success">>

UpdatePercent(l) ==
    CASE l = "p5" -> 5 [] l = "p10" -> 10 [] l = "p20" -> 20 [] l = "p30" -> 30
      [] l = "p40" -> 40 [] l = "p80" -> 80 [] l = "p90" -> 90 [] l = "p95" -> 95
      [] OTHER -> 100

UpdatePushLabels == {"p5", "p10", "p20", "p30", "p40", "p80", "p90", "p95", "p100"}

UpdateAfter(l) ==
    UpdateLabels[(CHOOSE i \in 1..Len(UpdateLabels) : UpdateLabels[i] = l) + 1]

\* The statements inside the inner try statement around the save button.
UpdateInnerTry == {"save", "p95", "p100"}

\* The messages of update_visitor_profile's exceptions and results, by name.
UpdateMsg(k) ==
    CASE k = "VisitorNotFound" -> <<"Visitor not found: ", "term">>
      [] k = "SessionExpired" -> <<"Session expired - please re-login">>
      [] k = "SaveNotFound" -> <<"Save button not found on page">>
      [] k = "SaveNotClickable" -> <<"Save button found but not clickable">>
      [] k = "ClickFailed" -> <<"ElementClickInterceptedException">>
      [] k = "Updated" -> <<"Visitor profile updated successfully">>

MsgUnknownError == <<"Unknown error">>

\* dict.get(key, default) on a result dictionary.
DictGet(d, key, default) == IF key \in DOMAIN d THEN d[key] ELSE default

\* The dictionaries update_visitor_profile returns.
UpdateSucceeded(fields) ==
    [success |-> TRUE, message |-> UpdateMsg("Updated"), updated_fields |-> fields]
UpdateFailed(e) ==
    [success |-> FALSE, message |-> <<"Error updating visitor profile: ">> \o e,
     updated_fields |-> <<>>]
UpdateSaveFailed(e, fields) ==
    [success |-> FALSE, message |-> <<"Error clicking save button: ">> \o e,
     updated_fields |-> fields]

\* The form fields and the upload a request can ask to change.
UpdateFieldChoices == {<<>>, <<"name">>, <<"email">>, <<"name", "email">>}
UpdateUploadChoices == {<<>>, <<"photo">>}
NoResult == [success |-> FALSE, message |-> MsgNone, updated_fields |-> <<>>]

\* Where an exception raised at label l goes: the inner clause
\* "except Exception" returns a dictionary, and so does the outer one.
UpdateCaught(l, e, fields) ==
    IF l \in UpdateInnerTry THEN UpdateSaveFailed(e, fields) ELSE UpdateFailed(e)

\* The key under which the handler looks for the failure text.
FailureDetailKey == "error"

InitUpdate ==
    \E ws \in {"None", "listener"} :
        update_run = [listener |-> ws, pc |-> "p5", pushed |-> <<>>, sent |-> <<>>,
                      aborted_at |-> "none", saves |-> 0, updated_fields |-> <<>>,
                      result |-> NoResult,
                      status |-> 0, detail |-> MsgNone]

UpdateIdle ==
    update_run = [listener |-> "None", pc |-> "p5", pushed |-> <<>>, sent |-> <<>>,
                  aborted_at |-> "none", saves |-> 0, updated_fields |-> <<>>,
                  result |-> NoResult,
                  status |-> 0, detail |-> MsgNone]

\* The run after the workflow returned the dictionary r.
UpdateReturned(v, r) == [v EXCEPT !.result = r, !.pc = "returned"]

\* "await self.update_progress(...)".
UpdatePush ==
    /\ update_run.pc \in UpdatePushLabels
    /\ \E send_ok \in SendOutcomes(update_run.listener) :
         LET u == update_progress(update_run.listener, send_ok)
             v == [update_run EXCEPT
                      !.pushed = Append(@, UpdatePercent(update_run.pc)),
                      !.sent = IF u.send_json THEN Append(@, UpdatePercent(update_run.pc))
                               ELSE @]
         IN  update_run' =
                IF u.raised
                THEN UpdateReturned([v EXCEPT !.aborted_at = "push"],
                                    UpdateCaught(update_run.pc, MsgSendFailed,
                                                 update_run.updated_fields))
                ELSE [v EXCEPT !.pc = UpdateAfter(update_run.pc)]
    /\ UNCHANGED notUpdate

\* search_visitor_by_term and the navigation to the edit page: both raise
\* when they cannot go on.
UpdateStep ==
    /\ update_run.pc \in {"search", "navigate"}
    /\ \E ok \in BOOLEAN :
         update_run' =
            IF ok THEN [update_run EXCEPT !.pc = UpdateAfter(update_run.pc)]
            ELSE UpdateReturned([update_run EXCEPT !.aborted_at = update_run.pc],
                                UpdateCaught(update_run.pc,
                                             IF update_run.pc = "search"
                                             THEN UpdateMsg("VisitorNotFound")
                                             ELSE UpdateMsg("SessionExpired"),
                                             update_run.updated_fields))
    /\ UNCHANGED notUpdate

\* The profile tab, the form fields and the uploads: a failure is logged and
\* the workflow continues; each field that was written is appended to
\* updated_fields.
UpdateBestEffort ==
    /\ update_run.pc \in {"profile_tab", "fields", "uploads"}
    /\ \E written \in (CASE update_run.pc = "fields" -> UpdateFieldChoices
                         [] update_run.pc = "uploads" -> UpdateUploadChoices
                         [] OTHER -> {<<>>}) :
         update_run' = [update_run EXCEPT !.pc = UpdateAfter(update_run.pc),
                                          !.updated_fields = @ \o written]
    /\ UNCHANGED notUpdate

\* The save button: clicked, not found, not clickable, or the click raises.
UpdateSave ==
    /\ update_run.pc = "save"
    /\ \E o \in {"clicked", "not_found", "not_clickable", "click_raises"} :
         update_run' =
            CASE o = "clicked" ->
                    [update_run EXCEPT !.saves = @ + 1, !.pc = UpdateAfter("save")]
              [] o = "not_found" ->
                    UpdateReturned([update_run EXCEPT !.aborted_at = "save"],
                                   UpdateFailed(UpdateMsg("SaveNotFound")))
              [] o = "not_clickable" ->
                    UpdateReturned([update_run EXCEPT !.aborted_at = "save"],
                                   UpdateSaveFailed(UpdateMsg("SaveNotClickable"),
                                                    update_run.updated_fields))
              [] o = "click_raises" ->
                    UpdateReturned([update_run EXCEPT !.aborted_at = "save"],
                                   UpdateSaveFailed(UpdateMsg("ClickFailed"),
                                                    update_run.updated_fields))
    /\ UNCHANGED notUpdate

UpdateReturn ==
    /\ update_run.pc = "return_success"
    /\ update_run' = UpdateReturned(update_run, UpdateSucceeded(update_run.updated_fields))
    /\ UNCHANGED notUpdate

\* The /visitors/update handler: 200 for success, else
\* HTTPException(400, detail=result.get('error', 'Unknown error')).
UpdateRespond ==
    /\ update_run.pc = "returned"
    /\ update_run' =
          IF update_run.result.success
          THEN [update_run EXCEPT !.status = 200, !.detail = update_run.result.message,
                                  !.pc = "done"]
          ELSE [update_run EXCEPT
                   !.status = 400,
                   !.detail = DictGet(update_run.result, FailureDetailKey, MsgUnknownError),
                   !.pc = "done"]
    /\ UNCHANGED notUpdate

NextUpdate ==
    \/ UpdatePush
    \/ UpdateStep
    \/ UpdateBestEffort
    \/ UpdateSave
    \/ UpdateReturn
    \/ UpdateRespond

----------------------------------------------------------------------------
(* EvTrackLogin.login: find the form, fill the credentials, click, and     *)
(* poll the URL.                                                           *)

\* The selectors login uses, named by what they match.
FormSelectors == <<"name_username", "type_email", "form_text">>
UsernameSelectors == <<"name_username", "type_email", "name_email">>
PasswordSelectors == <<"name_password", "type_password">>
LoginSelectors ==
    {"name_username", "type_email", "form_text", "name_email", "name_password", "button"}

\* The login pages: which selectors match an element.  The password field of
\* the site matches both password selectors or none.
LoginPages == SUBSET LoginSelectors

PageMatches(page, selector) ==
    IF selector = "type_password" THEN "name_password" \in page ELSE selector \in page

\* "for selector in selectors: try: ...; break; except Exception: continue":
\* the first selector of the list that matches, or "none".
FirstMatch(page, selectors) ==
    IF \E i \in 1..Len(selectors) : PageMatches(page, selectors[i])
    THEN selectors[CHOOSE i \in 1..Len(selectors) :
                      /\ PageMatches(page, selectors[i])
                      /\ \A j \in 1..(i - 1) : ~PageMatches(page, selectors[j])]
    ELSE "none"

\* URLs as sequences of path segments; str.lower() on a segment.
LowerSegment(seg) == IF seg \in {"Login", "LOGIN"} THEN "login" ELSE seg
LowerUrl(url) == [i \in 1..Len(url) |-> LowerSegment(url[i])]
PolledUrls == {<<"app", "login">>, <<"app", "Login">>, <<"app", "dashboard">>}

\* '"login" in current_url' after current_url.lower().
StillOnLogin(url) == \E i \in 1..Len(url) : LowerUrl(url)[i] = "login"

max_retries == 3

\* "if retry_count == max_retries": the polls are used up.
RetriesExhausted_Never(retry_count) == FALSE

RetriesExhausted(retry_count) == retry_count = max_retries

\* The messages of login's exceptions, by name.
LoginMsg(k) ==
    CASE k = "NoLoginForm" -> <<"Could not find login form after multiple attempts">>
      [] k = "NoUsername" -> <<"Could not fill username/email field">>
      [] k = "NoPassword" -> <<"Could not fill password field">>
      [] k = "StillOnLogin" -> <<"Login failed: Still on login page after multiple attempts">>

MsgElementTimeout == <<"TimeoutException">>
LoginBanners == {"", "Invalid credentials"}

\* The banner check of the last retry, inside "try: ... except: pass": the
\* exception it raises for a banner never leaves the try statement, and the
\* statement after it raises the fixed message.
ExhaustedMessage(banner) == LoginMsg("StillOnLogin")

\* "except Exception as e: raise Exception(f'Login failed: {str(e)}')".
LoginRaised(v, e) == [v EXCEPT !.pc = "raised", !.exc = <<"Login failed: ">> \o e]

InitLogin ==
    \E page \in LoginPages :
        login_run = [page |-> page, pc |-> "find_form", form |-> "none",
                     username |-> "none", password |-> "none", clicked |-> FALSE,
                     retry_count |-> 0, sleeps |-> 0, urls |-> <<>>, banner |-> "",
                     exc |-> MsgNone, result |-> FALSE]

LoginIdle ==
    login_run = [page |-> {}, pc |-> "find_form", form |-> "none",
                 username |-> "none", password |-> "none", clicked |-> FALSE,
                 retry_count |-> 0, sleeps |-> 0, urls |-> <<>>, banner |-> "",
                 exc |-> MsgNone, result |-> FALSE]

\* The form is looked for with each selector in order.
LoginFindForm ==
    /\ login_run.pc = "find_form"
    /\ LET found == FirstMatch(login_run.page, FormSelectors)
       IN  login_run' =
              IF found = "none" THEN LoginRaised(login_run, LoginMsg("NoLoginForm"))
              ELSE [login_run EXCEPT !.form = found, !.pc = "wait_username"]
    /\ UNCHANGED notLogin

\* "wait_for_element(driver, By.CSS_SELECTOR, 'input[name=\"username\"]', 20)".
LoginWaitUsername ==
    /\ login_run.pc = "wait_username"
    /\ login_run' =
          IF PageMatches(login_run.page, "name_username")
          THEN [login_run EXCEPT !.pc = "fill_username"]
          ELSE LoginRaised(login_run, MsgElementTimeout)
    /\ UNCHANGED notLogin

LoginFillUsername ==
    /\ login_run.pc = "fill_username"
    /\ LET used == FirstMatch(login_run.page, UsernameSelectors)
       IN  login_run' =
              IF used = "none" THEN LoginRaised(login_run, LoginMsg("NoUsername"))
              ELSE [login_run EXCEPT !.username = used, !.pc = "fill_password"]
    /\ UNCHANGED notLogin

LoginFillPassword ==
    /\ login_run.pc = "fill_password"
    /\ LET used == FirstMatch(login_run.page, PasswordSelectors)
       IN  login_run' =
              IF used = "none" THEN LoginRaised(login_run, LoginMsg("NoPassword"))
              ELSE [login_run EXCEPT !.password = used, !.pc = "click"]
    /\ UNCHANGED notLogin

LoginClick ==
    /\ login_run.pc = "click"
    /\ login_run' =
          IF PageMatches(login_run.page, "button")
          THEN [login_run EXCEPT !.clicked = TRUE, !.pc = "poll"]
          ELSE LoginRaised(login_run, MsgElementTimeout)
    /\ UNCHANGED notLogin

\* One evaluation of the loop condition and, when it holds, one pass through
\* the body: sleep, read the URL, leave the loop or count the retry.
LoginPoll ==
    /\ login_run.pc = "poll"
    /\ IF ~(login_run.retry_count < max_retries)
       THEN login_run' = [login_run EXCEPT !.pc = "return"]
       ELSE \E url \in PolledUrls, banner \in LoginBanners :
              LET v == [login_run EXCEPT !.sleeps = @ + 1, !.urls = Append(@, url)]
              IN  login_run' =
                     IF ~StillOnLogin(url) THEN [v EXCEPT !.pc = "return"]
                     ELSE IF RetriesExhausted(login_run.retry_count + 1)
                          THEN LoginRaised([v EXCEPT !.retry_count = @ + 1,
                                                     !.banner = banner],
                                           ExhaustedMessage(banner))
                          ELSE [v EXCEPT !.retry_count = @ + 1]
    /\ UNCHANGED notLogin

LoginReturn ==
    /\ login_run.pc = "return"
    /\ login_run' = [login_run EXCEPT !.result = TRUE, !.pc = "returned"]
    /\ UNCHANGED notLogin

NextLogin ==
    \/ LoginFindForm
    \/ LoginWaitUsername
    \/ LoginFillUsername
    \/ LoginFillPassword
    \/ LoginClick
    \/ LoginPoll
    \/ LoginReturn

----------------------------------------------------------------------------
(* File attachments: the create and update handlers collect the files of   *)
(* the request, the workflow uploads them slot by slot and then clicks the *)
(* form's save button.                                                     *)

FileSlots == <<"photo", "signature", "id_document">>

\* What a request carries for a slot: nothing, a file part without bytes, or
\* a file with bytes.
SlotContents == {"absent", "empty", "file"}

\* "if file_data and len(file_data) > 0": the slots the handler keeps.
CollectedFiles(supplied) == {FileSlots[i] : i \in {j \in 1..Len(FileSlots) : supplied[FileSlots[j]] = "file"}}

\* The files argument the workflow receives: update_visitor passes its files
\* dictionary; create_visitor stores the files in visitor_data and calls
\* create_update_visitor(visitor_data), whose files parameter stays None.
FilesArgument(endpoint, collected) == IF endpoint = "update" THEN collected ELSE {}

\* What can happen to one upload: the widget or its input is not found, the
\* write to the temporary file raises, send_keys raises, or the upload goes
\* through and is verified or not.
UploadOutcomes ==
    {"no_container", "no_input", "write_raises", "send_raises", "unverified", "verified"}

\* One call of _upload_file_to_uppy / _upload_file_safely.  The temporary
\* file is created by NamedTemporaryFile(delete=False) and written inside the
\* with statement; the try/finally that unlinks it starts after the with
\* statement.
upload_file(o) ==
    [created   |-> o \in {"write_raises", "send_raises", "unverified", "verified"},
     submitted |-> o \in {"unverified", "verified"},
     unlinked  |-> o \in {"send_raises", "unverified", "verified"},
     success   |-> o = "verified"]

InitUpload ==
    \E endpoint \in {"create", "update"}, supplied \in [{"photo", "signature", "id_document"} -> SlotContents] :
        upload_run = [endpoint |-> endpoint, supplied |-> supplied, pc |-> "handler",
                      files |-> {}, slot |-> 1, temp_files |-> {}, events |-> <<>>,
                      uploaded |-> {},
                      result |-> [kind |-> "none", success |-> FALSE],
                      response |-> [status |-> 0, success |-> FALSE]]

UploadIdle ==
    upload_run = [endpoint |-> "create",
                  supplied |-> [x \in {"photo", "signature", "id_document"} |-> "absent"],
                  pc |-> "handler", files |-> {}, slot |-> 1, temp_files |-> {},
                  events |-> <<>>, uploaded |-> {},
                  result |-> [kind |-> "none", success |-> FALSE],
                  response |-> [status |-> 0, success |-> FALSE]]

\* The handler reads the form and calls the workflow.
UploadReceive ==
    /\ upload_run.pc = "handler"
    /\ upload_run' =
          [upload_run EXCEPT
              !.files = FilesArgument(upload_run.endpoint,
                                      CollectedFiles(upload_run.supplied)),
              !.pc = "uploads"]
    /\ UNCHANGED notUpload

\* "for file_key in ...: if file_key in files: upload": one slot per step.
UploadSlot ==
    /\ upload_run.pc = "uploads"
    /\ upload_run.slot <= Len(FileSlots)
    /\ LET k == FileSlots[upload_run.slot]
       IN  IF k \notin upload_run.files
           THEN upload_run' = [upload_run EXCEPT !.slot = @ + 1]
           ELSE \E o \in UploadOutcomes :
                  LET u == upload_file(o)
                  IN  upload_run' =
                         [upload_run EXCEPT
                             !.slot = @ + 1,
                             !.temp_files = IF u.created /\ ~u.unlinked
                                            THEN @ \cup {k} ELSE @,
                             !.events = IF u.submitted THEN Append(@, k) ELSE @,
                             !.uploaded = IF u.success THEN @ \cup {k} ELSE @]
    /\ UNCHANGED notUpload

\* The form's save or submit button is clicked after the uploads.
UploadSave ==
    /\ upload_run.pc = "uploads"
    /\ upload_run.slot > Len(FileSlots)
    /\ upload_run' = [upload_run EXCEPT !.events = Append(@, "save"), !.pc = "verify"]
    /\ UNCHANGED notUpload

\* Where the browser is after the submit: on a dashboard, list or edit page,
\* still on the form, or a step of the workflow has raised.
LandingOutcomes == {"redirected", "still_on_form", "raises"}

\* The result of the workflow.  add_visitor returns success True after a
\* redirect, success False when still on the add form, and re-raises an
\* exception; update_visitor_profile catches every exception and returns
\* success False with the key "error".
WorkflowResult(endpoint, landing) ==
    IF endpoint = "create"
    THEN CASE landing = "redirected"    -> [kind |-> "returned", success |-> TRUE]
           [] landing = "still_on_form" -> [kind |-> "returned", success |-> FALSE]
           [] OTHER                     -> [kind |-> "raised", success |-> FALSE]
    ELSE [kind |-> "returned", success |-> landing = "redirected"]

\* create_visitor: "result = await ...create_update_visitor(visitor_data);
\* return {"success": True, "visitor_id": result.get("visitor_id"), ...}",
\* an exception becomes HTTP 500.
create_visitor_response(result) ==
    IF result.kind = "raised"
    THEN [status |-> 500, success |-> FALSE]
    ELSE [status |-> 200, success |-> TRUE]

\* update_visitor: "if result['success']: return {"success": True, ...}
\* else: raise HTTPException(status_code=400, ...)".
update_visitor_response(result) ==
    IF result.kind = "raised"
    THEN [status |-> 500, success |-> FALSE]
    ELSE IF result.success
    THEN [status |-> 200, success |-> TRUE]
    ELSE [status |-> 400, success |-> FALSE]

\* The workflow checks where the submit has led and returns or raises.
UploadVerify ==
    /\ upload_run.pc = "verify"
    /\ \E landing \in LandingOutcomes :
          upload_run' = [upload_run EXCEPT
                            !.result = WorkflowResult(upload_run.endpoint, landing),
                            !.pc = "respond"]
    /\ UNCHANGED notUpload

\* The handler turns the workflow's result into the HTTP response.
UploadRespond ==
    /\ upload_run.pc = "respond"
    /\ upload_run' = [upload_run EXCEPT
                         !.response = IF upload_run.endpoint = "create"
                                      THEN create_visitor_response(upload_run.result)
                                      ELSE update_visitor_response(upload_run.result),
                         !.pc = "done"]
    /\ UNCHANGED notUpload

NextUpload ==
    \/ UploadReceive
    \/ UploadSlot
    \/ UploadSave
    \/ UploadVerify
    \/ UploadRespond

----------------------------------------------------------------------------
(* The /ws endpoint and the process-wide listener slot                     *)
(* app.state.active_websocket, with one GET /visitors request that reports *)
(* its progress to the listener it finds in the slot.                      *)

WsClients == {"c1", "c2"}

\* The search terms of the authenticated request and the visitor each finds.
WsTerms == {"alice", "bob"}
WsNameOf(term) == IF term = "alice" THEN "Alice Smith" ELSE "Bob Jones"

\* The progress events of get_visitor_summary and of the search inside it:
\* percent and status text, the text as the parts it is formatted from.
WsEvents(term) ==
    <<[percent |-> 0, status |-> <<"Searching for specific visitor: ", term>>],
      [percent |-> 5, status |-> <<"Searching for visitor: ", term>>],
      [percent |-> 10, status |-> <<"Searching for visitor: ", term>>],
      [percent |-> 50, status |-> <<"Processing search results...">>],
      [percent |-> 50, status |-> <<"Getting comprehensive profile for ", WsNameOf(term)>>]>>

\* websocket_endpoint accepts every connection: it takes no credentials.
WsAccepts(has_key) == TRUE

\* "except WebSocketDisconnect: app.state.active_websocket = None".
SlotAfterDisconnect(slot, c) == "None"

InitWs ==
    \E keys \in [WsClients -> BOOLEAN], term \in WsTerms :
        ws_run = [has_key |-> keys, conn |-> [c \in WsClients |-> "new"],
                  slot |-> "unset", order |-> <<>>,
                  received |-> [c \in WsClients |-> <<>>],
                  term |-> term, pc |-> "idle", listener |-> "None", next |-> 1,
                  last_disconnect |-> [by |-> "none", slot_before |-> "unset"]]

WsIdle ==
    ws_run = [has_key |-> [c \in WsClients |-> FALSE],
              conn |-> [c \in WsClients |-> "new"],
              slot |-> "unset", order |-> <<>>,
              received |-> [c \in WsClients |-> <<>>],
              term |-> "alice", pc |-> "idle", listener |-> "None", next |-> 1,
              last_disconnect |-> [by |-> "none", slot_before |-> "unset"]]

\* "await websocket.accept(); app.state.active_websocket = websocket".
WsConnect ==
    \E c \in WsClients :
        /\ ws_run.conn[c] = "new"
        /\ WsAccepts(ws_run.has_key[c])
        /\ ws_run' = [ws_run EXCEPT
                         !.conn[c] = "connected", !.slot = c,
                         !.order = Append(@, c),
                         !.last_disconnect = [by |-> "none", slot_before |-> "unset"]]
        /\ UNCHANGED notWs

\* receive_text raises WebSocketDisconnect in the handler of client c.
WsDisconnect ==
    \E c \in WsClients :
        /\ ws_run.conn[c] = "connected"
        /\ ws_run' = [ws_run EXCEPT
                         !.conn[c] = "closed",
                         !.slot = SlotAfterDisconnect(ws_run.slot, c),
                         !.last_disconnect = [by |-> c, slot_before |-> ws_run.slot]]
        /\ UNCHANGED notWs

\* get_visitors: "if hasattr(app.state, 'active_websocket'):
\* visitor_automation.set_websocket(app.state.active_websocket)".
WsWorkflowStart ==
    /\ ws_run.pc = "idle"
    /\ ws_run' = [ws_run EXCEPT
                     !.listener = IF ws_run.slot = "unset" THEN "None" ELSE ws_run.slot,
                     !.pc = "running"]
    /\ UNCHANGED notWs

\* One update_progress call of the request: the event goes to the listener
\* the workflow holds if that client is still connected; a send to a closed
\* connection raises and ends the search.
WsWorkflowPush ==
    /\ ws_run.pc = "running"
    /\ LET e == WsEvents(ws_run.term)[ws_run.next]
           l == ws_run.listener
       IN  ws_run' =
              IF l = "None"
              THEN [ws_run EXCEPT !.next = @ + 1,
                                  !.pc = IF ws_run.next = Len(WsEvents(ws_run.term))
                                         THEN "done" ELSE @]
              ELSE IF ws_run.conn[l] = "connected"
              THEN [ws_run EXCEPT !.received[l] = Append(@, e),
                                  !.next = @ + 1,
                                  !.pc = IF ws_run.next = Len(WsEvents(ws_run.term))
                                         THEN "done" ELSE @]
              ELSE [ws_run EXCEPT !.pc = "done"]
    /\ UNCHANGED notWs

NextWs ==
    \/ WsConnect
    \/ WsDisconnect
    \/ WsWorkflowStart
    \/ WsWorkflowPush

----------------------------------------------------------------------------
(* The hidden visitorUuid field of the invite form in one                  *)
(* POST /visitors/{search_term}/invite request.                            *)

\* The identifiers the external system has assigned.
InviteUuids == {"u1", "u2", "u3"}

\* "'locationId': location_mapping.get(location_display, '')".
location_mapping(location_display) ==
    CASE location_display = "Select Location..." -> ""
      [] location_display = "Inherited - Default Visitor Access List" -> "0"
      [] location_display = "IO Main Campus" -> "2715"
      [] OTHER -> ""

\* "visitor_uuid_field = invite_data.get("visitorUuid", ""); if
\* visitor_uuid_field: hiddenField.value = visitor_uuid_field; else: keep
\* the field's current value if it has one, else hiddenField.value =
\* visitor_uuid".  find_element raising is logged and leaves the form alone.
SetVisitorUuid(caller_uuid, visitor_uuid, current_value, has_field) ==
    IF ~has_field THEN current_value
    ELSE IF caller_uuid # "" THEN caller_uuid
    ELSE IF current_value # "" THEN current_value
    ELSE visitor_uuid

InitInvite ==
    \E caller_uuid \in {"u1", "u2", "u3", ""},
       location_display \in {"", "Select Location...", "IO Main Campus",
                             "Inherited - Default Visitor Access List", "Gate 7"} :
        invite_run = [caller_uuid |-> caller_uuid,
                      locationId |-> location_mapping(location_display),
                      pc |-> "handler", visitor_uuid |-> "", has_field |-> FALSE,
                      field |-> "", submitted |-> "none",
                      response |-> [status |-> 0, visitor_uuid |-> ""]]

InviteIdle ==
    invite_run = [caller_uuid |-> "", locationId |-> "",
                  pc |-> "handler", visitor_uuid |-> "", has_field |-> FALSE,
                  field |-> "", submitted |-> "none",
                  response |-> [status |-> 0, visitor_uuid |-> ""]]

\* The handler builds invite_data from the form, the caller's visitorUuid
\* included, and requires a location.
InviteReceive ==
    /\ invite_run.pc = "handler"
    /\ invite_run' =
          IF invite_run.locationId = ""
          THEN [invite_run EXCEPT !.response.status = 400, !.pc = "done"]
          ELSE [invite_run EXCEPT !.pc = "search"]
    /\ UNCHANGED notInvite

\* The search finds a visitor or none; with a visitor the workflow opens
\* edit?uuid=<visitor_uuid> and the invite tab, whose form renders the hidden
\* field empty or with that visitor's identifier, or has no such field.
InviteSearch ==
    /\ invite_run.pc = "search"
    /\ \/ invite_run' = [invite_run EXCEPT !.response.status = 500, !.pc = "done"]
       \/ \E u \in InviteUuids, has_field \in BOOLEAN :
            \E rendered \in (IF has_field THEN {"", u} ELSE {""}) :
              invite_run' = [invite_run EXCEPT !.visitor_uuid = u,
                                               !.has_field = has_field,
                                               !.field = rendered,
                                               !.pc = "form"]
    /\ UNCHANGED notInvite

InviteSetUuid ==
    /\ invite_run.pc = "form"
    /\ invite_run' =
          [invite_run EXCEPT
              !.field = SetVisitorUuid(invite_run.caller_uuid, invite_run.visitor_uuid,
                                       invite_run.field, invite_run.has_field),
              !.pc = "generate"]
    /\ UNCHANGED notInvite

\* 'Generate Invite' is clicked and the form goes out with the field's value,
\* or no selector finds the button and the workflow raises.
InviteGenerate ==
    /\ invite_run.pc = "generate"
    /\ \/ invite_run' = [invite_run EXCEPT !.response.status = 500, !.pc = "done"]
       \/ invite_run' = [invite_run EXCEPT
                            !.submitted = IF invite_run.has_field
                                          THEN invite_run.field ELSE "none",
                            !.pc = "respond"]
    /\ UNCHANGED notInvite

\* "return {'success': True, ..., 'visitor_uuid': visitor_uuid, ...}" and the
\* handler's "visitor_uuid": result['visitor_uuid'].
InviteRespond ==
    /\ invite_run.pc = "respond"
    /\ invite_run' = [invite_run EXCEPT
                         !.response = [status |-> 200,
                                       visitor_uuid |-> invite_run.visitor_uuid],
                         !.pc = "done"]
    /\ UNCHANGED notInvite

NextInvite ==
    \/ InviteReceive
    \/ InviteSearch
    \/ InviteSetUuid
    \/ InviteGenerate
    \/ InviteRespond

----------------------------------------------------------------------------
(* The specification of the time validator: any bounded string is given    *)
(* to validate_time_format once.                                           *)

InitTime ==
    /\ time_string \in SeqsUpTo(TimeChars, MaxTimeLen)
    /\ time_result = Pending

\* The parts of the state a specification does not exercise stay as built.
TimeIdle == time_string = <<>> /\ time_result = Pending

HttpIdle ==
    /\ config = [is_lambda |-> FALSE, has_credentials |-> TRUE]
    /\ req = NoRequest
    /\ data = NoRequest
    /\ pc = "idle"
    /\ driver = "None"
    /\ exc = NoExc
    /\ wf_result = "none"
    /\ start_driver_calls = 0
    /\ sessions_open = 0
    /\ quit_calls = 0
    /\ quit_raised = FALSE
    /\ dom_writes = {}
    /\ save_clicks = 0
    /\ response = 0

ValidateTime ==
    /\ time_result.kind = "pending"
    /\ time_result' = validate_time_format(time_string)
    /\ UNCHANGED <<time_string, notTime>>

NextTime == ValidateTime

SearchIdle ==
    /\ search_term = <<>>
    /\ site_matches = {}
    /\ websocket = "None"
    /\ search_pc = "start"
    /\ pending = <<>>
    /\ calls = <<>>
    /\ last_table = <<>>
    /\ last_result = Return(None)
    /\ only_zero_rows = TRUE
    /\ send_failed = FALSE
    /\ site_failed = FALSE
    /\ search_result = Return(None)

InitSpecTime == InitTime /\ HttpIdle /\ SearchIdle /\ VehicleIdle /\ AuthIdle /\ UpdateIdle /\ LoginIdle /\ UploadIdle /\ WsIdle /\ InviteIdle

SpecTime == InitSpecTime /\ [][NextTime]_vars

InitSpecHttp == InitHttp /\ TimeIdle /\ SearchIdle /\ VehicleIdle /\ AuthIdle /\ UpdateIdle /\ LoginIdle /\ UploadIdle /\ WsIdle /\ InviteIdle

SpecHttp == InitSpecHttp /\ [][NextHttp]_vars

InitSpecSearch == InitSearch /\ TimeIdle /\ HttpIdle /\ VehicleIdle /\ AuthIdle /\ UpdateIdle /\ LoginIdle /\ UploadIdle /\ WsIdle /\ InviteIdle

SpecSearch == InitSpecSearch /\ [][NextSearch]_vars

InitSpecVehicle == InitVehicle /\ TimeIdle /\ HttpIdle /\ SearchIdle /\ AuthIdle /\ UpdateIdle /\ LoginIdle /\ UploadIdle /\ WsIdle /\ InviteIdle

SpecVehicle == InitSpecVehicle /\ [][NextVehicle]_vars

InitSpecAuth == InitAuth /\ TimeIdle /\ HttpIdle /\ SearchIdle /\ VehicleIdle /\ UpdateIdle /\ LoginIdle /\ UploadIdle /\ WsIdle /\ InviteIdle

SpecAuth == InitSpecAuth /\ [][NextAuth]_vars

InitSpecUpdate ==
    InitUpdate /\ TimeIdle /\ HttpIdle /\ SearchIdle /\ VehicleIdle /\ AuthIdle /\ LoginIdle /\ UploadIdle /\ WsIdle /\ InviteIdle

SpecUpdate == InitSpecUpdate /\ [][NextUpdate]_vars

InitSpecLogin ==
    InitLogin /\ TimeIdle /\ HttpIdle /\ SearchIdle /\ VehicleIdle /\ AuthIdle /\ UpdateIdle /\ UploadIdle /\ WsIdle /\ InviteIdle

SpecLogin == InitSpecLogin /\ [][NextLogin]_vars

\* login is one coroutine whose waits all carry a timeout: a step that can be
\* taken is taken.
SpecLoginFair == SpecLogin /\ WF_vars(NextLogin)

InitSpecUpload ==
    InitUpload /\ TimeIdle /\ HttpIdle /\ SearchIdle /\ VehicleIdle /\ AuthIdle
        /\ UpdateIdle /\ LoginIdle /\ WsIdle /\ InviteIdle

SpecUpload == InitSpecUpload /\ [][NextUpload]_vars

InitSpecWs ==
    InitWs /\ TimeIdle /\ HttpIdle /\ SearchIdle /\ VehicleIdle /\ AuthIdle
        /\ UpdateIdle /\ LoginIdle /\ UploadIdle /\ InviteIdle

SpecWs == InitSpecWs /\ [][NextWs]_vars

InitSpecInvite ==
    InitInvite /\ TimeIdle /\ HttpIdle /\ SearchIdle /\ VehicleIdle /\ AuthIdle
        /\ UpdateIdle /\ LoginIdle /\ UploadIdle /\ WsIdle

SpecInvite == InitSpecInvite /\ [][NextInvite]_vars

----------------------------------------------------------------------------
(* Claims about validate_time_format.                                      *)

\* The strict pattern ^([01][0-9]|2[0-3]):[0-5][0-9]$ of the interface contract.
StrictHHMM(s) ==
    /\ Len(s) = 5
    /\ \/ s[1] \in {"0", "1"} /\ s[2] \in Digits
       \/ s[1] = "2" /\ s[2] \in {"0", "1", "2", "3"}
    /\ s[3] = ":"
    /\ s[4] \in {"0", "1", "2", "3", "4", "5"}
    /\ s[5] \in Digits

\* C1: every input that matches the strict HH:MM pattern is accepted, and the
\* string returned is the input itself.
C1_StrictAcceptedUnchanged ==
    (time_result.kind # "pending" /\ StrictHHMM(time_string))
        => (time_result.kind = "return" /\ time_result.value = time_string)

C1_Witness ==
    /\ time_string = <<"2", "3", ":", "0", "6">>
    /\ time_result.kind = "return"

\* C2 as stated: every input that does not match the strict pattern, the empty
\* and the whitespace-only strings included, is refused with HTTP 400.
C2_Original ==
    (time_result.kind # "pending" /\ ~StrictHHMM(time_string))
        => (time_result.kind = "http" /\ time_result.status = 400)

\* C2 amended: an input whose stripped form is not empty and does not match the
\* strict pattern is refused with HTTP 400 and returns nothing; an empty or
\* whitespace-only input is accepted and returns the empty string.
C2_NonBlankMalformedRefused ==
    time_result.kind # "pending" =>
        /\ (Strip(time_string) # <<>> /\ ~StrictHHMM(Strip(time_string)))
               => (time_result.kind = "http" /\ time_result.status = 400)
        /\ Strip(time_string) = <<>> => time_result = Returned(<<>>)

C2_Witness ==
    /\ time_string = <<"0", "0", "3", ":", "3", "0">>
    /\ time_result.kind = "http"
    /\ time_result.status = 400

----------------------------------------------------------------------------
(* Claims about the HTTP facade.                                           *)

\* A supplied time value that is not HH:MM even after stripping.
Malformed(v) == Strip(v) # <<>> /\ ~StrictHHMM(Strip(v))

TimeEndpoints == {"credentials_add", "credentials_update", "visitors_invite"}

\* C3: on every endpoint that takes time fields, a request with a malformed
\* time field is answered 400, no driver is started and no form field is
\* written for it.
C3_MalformedTimeRefusedBeforeBrowser ==
    (req.endpoint \in TimeEndpoints
        /\ (Malformed(req.active_time) \/ Malformed(req.expiry_time)))
    => /\ start_driver_calls = 0
       /\ dom_writes = {}
       /\ (pc = "done" => response = 400)

\* C4: POST /vehicles/add with neither a non-blank vin nor a non-blank
\* number_plate is answered 400 and start_driver is never called.
C4_NoVinNoPlateRefused ==
    (req.endpoint = "vehicles_add" /\ req.vin # "value" /\ req.number_plate # "value")
    => /\ start_driver_calls = 0
       /\ (pc = "done" => response = 400)

C4_Witness ==
    /\ pc = "done"
    /\ req.endpoint = "vehicles_add"
    /\ req.search_term = "value"
    /\ req.vin = "blank"
    /\ req.number_plate = "absent"
    /\ response = 400

\* C5: credential creation without a unique_identifier never clicks the save
\* button, its workflow never reports success, and the response is not a
\* success response.
C5_NoIdentifierNoSave ==
    (req.endpoint = "credentials_add" /\ req.unique_identifier # "value")
    => /\ save_clicks = 0
       /\ wf_result # "success"
       /\ response # 200

C5_Witness ==
    /\ pc = "done"
    /\ req.endpoint = "credentials_add"
    /\ req.unique_identifier = "absent"
    /\ Write("reader_type", <<"v">>) \in dom_writes
    /\ wf_result = "failure"
    /\ save_clicks = 0
    /\ response = 400

\* C6: a request that obtained a driver handle calls quit on it exactly once
\* before its response is produced, whatever stage failed; when that quit
\* went through, no session is left open.
C6_QuitExactlyOnce ==
    /\ quit_calls <= 1
    /\ (driver = "handle" /\ (pc \in {"respond", "done"} \/ response # 0)) => quit_calls = 1
    /\ (driver = "handle" /\ pc = "done" /\ ~quit_raised) => sessions_open = 0

C6_Witness ==
    /\ pc = "done"
    /\ driver = "handle"
    /\ wf_result = "raised"
    /\ quit_calls = 1
    /\ sessions_open = 0
    /\ response = 500

\* C7: a failed driver acquisition leaves no browser session open.
C7_FailedAcquisitionLeavesNoSession ==
    (start_driver_calls > 0 /\ driver = "None") => sessions_open = 0

----------------------------------------------------------------------------
(* Claims about the visitor search.                                        *)

\* C8: when the result table has zero rows, search_visitor_by_term returns
\* the not-found value and does not raise, and a case-insensitive search that
\* only ever saw zero-row tables returns not-found and does not raise, for
\* every term and whether or not a listener is attached or its sends fail.
C8_ZeroRowsNotFound ==
    /\ (calls # <<>> /\ last_table = <<>>) => last_result = Return(None)
    /\ (search_pc = "done" /\ only_zero_rows) => search_result = Return(None)

C8_Witness ==
    /\ search_pc = "done"
    /\ Len(calls) >= 2
    /\ only_zero_rows
    /\ websocket = "listener"
    /\ send_failed
    /\ search_term # <<>>

\* C9 as stated: a table holding a placeholder row in any position gives
\* not-found, whatever the other rows are.
C9_Original ==
    (calls # <<>> /\ ~send_failed /\ ~site_failed
        /\ \E i \in 1..Len(last_table) : last_table[i].placeholder)
    => last_result = Return(None)

\* C9 as amended: a table whose only row holds the placeholder's words gives
\* not-found, as a zero-row table does.
C9_LonePlaceholderNotFound ==
    (calls # <<>> /\ Len(last_table) = 1 /\ last_table[1].placeholder)
    => last_result = Return(None)

C9_Witness ==
    /\ calls # <<>>
    /\ ~send_failed /\ ~site_failed
    /\ Len(last_table) = 1
    /\ last_table[1].placeholder
    /\ last_table[1].has_link
    /\ last_result = Return(None)

\* C10: the exact term is the first term searched; a case variant is searched
\* only after the exact search returned not-found; and when the site answers
\* and matches only the upper-cased term, the search returns that match.
C10_ExactFirstUpperFound ==
    /\ calls # <<>> => calls[1].term = search_term
    /\ Len(calls) >= 2 => ~calls[1].found
    /\ (search_pc = "done" /\ site_matches = {Upper(search_term)} /\ ~site_failed)
       => /\ search_result.value.found
          /\ calls # <<>>
          /\ calls[Len(calls)].term = Upper(search_term)
          /\ search_result = last_result

\* C10, supporting fact: the same statement holds in every run in which no
\* progress send raised.
C10_HoldsWhileSendsSucceed ==
    send_failed \/ C10_ExactFirstUpperFound

----------------------------------------------------------------------------
(* Claims about progress reporting and the vehicle-add workflow.           *)

\* C11: with no listener attached (websocket is None) a progress push calls
\* send_json for nothing, raises nothing, and the workflow goes on to the
\* statement after the push; in an except clause the exception on its way
\* out stays the same.
C11_NoListenerPushIsNoOp ==
    [][vehicle_run.listener = "None" =>
          /\ vehicle_run'.sent = <<>>
          /\ ~vehicle_run'.push_raised
          /\ vehicle_run.pc \in VehiclePushLabels =>
                /\ vehicle_run'.pc = VehicleAfter(vehicle_run.pc)
                /\ vehicle_run'.pushed = Append(vehicle_run.pushed, VehiclePercent(vehicle_run.pc))
          /\ vehicle_run.pc \in {"except", "outer_except"} =>
                /\ vehicle_run'.exc = vehicle_run.exc
                /\ vehicle_run'.pushed = Append(vehicle_run.pushed, 100)]_vars

C11_Witness ==
    /\ vehicle_run.listener = "None"
    /\ vehicle_run.pc = "done"
    /\ vehicle_run.status = 200
    /\ Len(vehicle_run.pushed) = 10
    /\ vehicle_run.sent = <<>>

\* C12: on every workflow endpoint, when logging in to the target site fails
\* the exception that leaves the handler, and with it the response, has
\* status 401.
C12_LoginFailureIs401 ==
    [][(pc = "login" /\ pc' = "finally") => exc'.status = 401]_vars

\* C13: when the search finds no visitor, the response is 404 or a successful
\* response, never another status.
C13_NotFoundIs404OrEmpty ==
    (vehicle_run.pc = "done" /\ vehicle_run.found = "no")
        => vehicle_run.status \in {200, 404}

----------------------------------------------------------------------------
(* Claims about authentication.                                            *)

\* C14 as stated: a request is admitted exactly when its X-API-Key value or
\* its Bearer token is a member of the allow-list; every other request, and
\* every request under an empty allow-list, gets 401 and starts no driver.
C14_Original ==
    auth_run.outcome.kind # "pending" =>
        LET keys == ValidApiKeys(auth_run.api_keys)
            member == \/ auth_run.x_api_key # NotSent /\ InList(auth_run.x_api_key, keys)
                      \/ auth_run.token # NotSent /\ InList(auth_run.token, keys)
        IN  /\ auth_run.outcome.kind = "admitted" <=> member
            /\ ~member => (auth_run.outcome.status = 401 /\ auth_run.start_driver_calls = 0)

\* C14 as amended: the same with "non-empty X-API-Key value": an empty header
\* value is refused even when the allow-list holds the empty string.
C14_AdmittedIffNonEmptyMember ==
    auth_run.outcome.kind # "pending" =>
        LET keys == ValidApiKeys(auth_run.api_keys)
            member == \/ /\ auth_run.x_api_key # NotSent
                         /\ Len(auth_run.x_api_key) > 0
                         /\ InList(auth_run.x_api_key, keys)
                      \/ auth_run.token # NotSent /\ InList(auth_run.token, keys)
        IN  /\ auth_run.outcome.kind = "admitted" <=> member
            /\ ~member => /\ auth_run.outcome.status = 401
                          /\ auth_run.start_driver_calls = 0
                          /\ ~auth_run.handler_ran
            /\ keys = <<>> => auth_run.outcome.status = 401

C14_Witness ==
    /\ auth_run.pc = "done"
    /\ auth_run.api_keys = <<"a", ",", "b">>
    /\ auth_run.x_api_key = <<"a", "b">>
    /\ auth_run.token = <<"b">>
    /\ auth_run.outcome.auth_type = "api_key_bearer"
    /\ auth_run.start_driver_calls = 1

----------------------------------------------------------------------------
(* Claims about error responses.                                           *)

\* C15: when a workflow aborts because a required control, tab or save button
\* cannot be used, the detail of the HTTP error response carries the failure
\* message the workflow produced; stated for POST /visitors/update.
C15_DetailCarriesWorkflowMessage ==
    (update_run.pc = "done" /\ update_run.aborted_at \in {"navigate", "save"})
        => /\ update_run.status >= 400
           /\ update_run.detail = update_run.result.message

----------------------------------------------------------------------------
(* Claims about EvTrackLogin.login.                                        *)

LoginEnded == login_run.pc \in {"returned", "raised"}

AllOnLogin(urls) == \A i \in 1..Len(urls) : StillOnLogin(urls[i])

\* C16: after the click the URL is polled at most 3 times, with one fixed
\* delay before each poll; login returns at the first poll whose URL does not
\* contain "login", raises exactly when all 3 polls contain it, and the loop
\* always ends.
C16_PollingBoundedAndDecisive ==
    /\ [](/\ Len(login_run.urls) <= 3
          /\ login_run.sleeps = Len(login_run.urls)
          /\ login_run.pc = "poll" => AllOnLogin(login_run.urls)
          /\ login_run.pc \in {"return", "returned"} =>
                /\ login_run.urls # <<>>
                /\ ~StillOnLogin(login_run.urls[Len(login_run.urls)])
                /\ AllOnLogin(SubSeq(login_run.urls, 1, Len(login_run.urls) - 1))
          /\ (login_run.pc = "raised" /\ login_run.clicked) =>
                (Len(login_run.urls) = 3 /\ AllOnLogin(login_run.urls))
          /\ (Len(login_run.urls) = 3 /\ AllOnLogin(login_run.urls)) =>
                login_run.pc = "raised")
    /\ <>LoginEnded

C16_Witness ==
    /\ login_run.pc = "raised"
    /\ login_run.clicked
    /\ login_run.sleeps = 3
    /\ login_run.urls = <<<<"app", "login">>, <<"app", "Login">>, <<"app", "login">>>>

\* C17: when the browser is still on the login URL after all retries and an
\* inline error banner is present, the message of the raised login failure
\* contains the banner's text.
C17_BannerTextInFailure ==
    (login_run.pc = "raised" /\ login_run.retry_count = max_retries
        /\ login_run.banner # "")
        => \E i \in 1..Len(login_run.exc) : login_run.exc[i] = login_run.banner

\* C18: the candidates name=username, type=email and first text input of the
\* form are tried in order, and login goes on to fill the credentials whenever
\* at least one of them is present on the login page.
C18_AnyCandidateReachesFill ==
    (LoginEnded /\ \E i \in 1..Len(FormSelectors) :
                      PageMatches(login_run.page, FormSelectors[i]))
        => login_run.username # "none"

----------------------------------------------------------------------------
(* Claims about the verification of a save.                                *)

\* C19: when the URL after the save is outside the expected path family and
\* an inline error banner is present, the workflow raises a validation
\* failure whose message contains the banner's text; stated for vehicle add.
C19_BannerIsFatalValidationFailure ==
    (vehicle_run.pc = "done" /\ ~vehicle_run.url_ok /\ vehicle_run.banner # "")
        => /\ vehicle_run.result = "raised"
           /\ \E i \in 1..Len(vehicle_run.detail) :
                 vehicle_run.detail[i] = vehicle_run.banner

\* C20: when the URL after the save is outside the expected path family and
\* no error banner is present, the outcome is "unclear", the workflow result
\* and the HTTP response report success, and the save click is not repeated;
\* stated for vehicle add.
C20_UnclearIsSoftSuccess ==
    (vehicle_run.pc = "done" /\ ~vehicle_run.url_ok /\ vehicle_run.banner = "")
        => /\ vehicle_run.message = VehicleMsg("Unclear")
           /\ vehicle_run.status = 200
           /\ vehicle_run.saves = 1

----------------------------------------------------------------------------
(* Claims about field filling.                                             *)

\* C21: when the control of one optional field with a supplied value cannot
\* be located or filled, that field alone is skipped: the remaining supplied
\* fields are still filled, the save button is still clicked and the workflow
\* does not fail because of it.  Stated for the active time of a new
\* credential: the fields are filled in order, so the field was skipped when
\* the unique identifier before it was written and it was not.
C21_SkippedFieldNotFatal ==
    (/\ req.endpoint = "credentials_add"
     /\ wf_result # "none"
     /\ Write("unique_identifier", <<"v">>) \in dom_writes
     /\ data.active_time # <<>>
     /\ Write("active_time", data.active_time) \notin dom_writes)
        => /\ Write("status", <<"v">>) \in dom_writes
           /\ save_clicks = 1
           /\ wf_result = "success"

----------------------------------------------------------------------------
(* Claims about file attachments.                                          *)

\* C22: in the visitor create and update workflows, for every slot for which
\* the request supplies a non-empty file, the file path is submitted to the
\* slot's upload input before the form's save button is clicked.
C22_FilesSubmittedBeforeSave ==
    upload_run.pc = "done" =>
        \A k \in {"photo", "signature", "id_document"} :
            upload_run.supplied[k] = "file" =>
                \E i, j \in 1..Len(upload_run.events) :
                    /\ i < j
                    /\ upload_run.events[i] = k
                    /\ upload_run.events[j] = "save"

\* C23: every temporary file created for an upload is removed before the
\* upload operation returns, whatever happened after it was created, a
\* failing write of the bytes included.
C23_NoTemporaryFileLeft == upload_run.temp_files = {}

----------------------------------------------------------------------------
(* Claims about the token fallback of the visitor search.                  *)

\* The calls made after the exact term and its case variations are the
\* first-name-only and last-name-only searches.
TokenSearchMade == Len(calls) > 1 + Len(Variations(search_term))

\* C24: a result obtained from a first-name-only or last-name-only search is
\* returned only if at least one token of the original term occurs, without
\* regard to case, in the returned first and last name; otherwise the search
\* goes on or returns not-found.
C24_TokenResultHasToken ==
    (search_pc = "done" /\ TokenSearchMade /\ search_result.value.found)
        => /\ search_result = last_result
           /\ \E i \in 1..Len(Split(Strip(search_term))) :
                 Contains(Lower(search_result.value.first_name \o <<" ">>
                                    \o search_result.value.last_name),
                          Lower(Split(Strip(search_term))[i]))

C24_Witness ==
    /\ search_pc = "done"
    /\ search_term = <<"a", " ", "A">>
    /\ Len(calls) = Len(Variations(search_term)) + 3
    /\ calls[Len(calls) - 1].term = <<"a">>
    /\ calls[Len(calls) - 1].found
    /\ calls[Len(calls)].term = <<"A">>
    /\ search_result = Return(VisitorData(DataRow(VisitorA)))

----------------------------------------------------------------------------
(* Claims about the order of the progress values.                          *)

NonDecreasing(seq) == \A i \in 1..(Len(seq) - 1) : seq[i] <= seq[i + 1]

\* C30 as stated: within one run of vehicle add, the nested visitor search
\* and its retries included, the percent values pushed are non-decreasing.
C30_Original == NonDecreasing(vehicle_run.all_pushed)

\* C30, amended: within one run of vehicle add the percent values pushed by
\* add_vehicle's own steps are non-decreasing; the nested visitor search
\* pushes values of its own scale in between.
C30_OwnStepsNonDecreasing == NonDecreasing(vehicle_run.pushed)

C30_Witness ==
    /\ vehicle_run.pc = "done"
    /\ vehicle_run.status = 200
    /\ vehicle_run.pushed = <<0, 5, 20, 25, 35, 45, 55, 85, 95, 100>>
    /\ vehicle_run.all_pushed =
          <<0, 5, 5, 10, 50, 10, 50, 20, 25, 35, 45, 55, 85, 95, 100>>

----------------------------------------------------------------------------
(* Claims about the progress listener.                                     *)

C25_SlotFollowsLatestListener ==
    /\ (ws_run.order # <<>>
          /\ ws_run.conn[ws_run.order[Len(ws_run.order)]] = "connected")
        => ws_run.slot = ws_run.order[Len(ws_run.order)]
    /\ (ws_run.last_disconnect.by # "none"
          /\ ws_run.last_disconnect.slot_before # ws_run.last_disconnect.by)
        => ws_run.slot = ws_run.last_disconnect.slot_before

\* C27: a client that presents no valid API key observes nothing that depends
\* on the data of authenticated requests: the events a /ws listener without
\* credentials receives hold neither the search term nor the visitor's name.
C27_UnauthenticatedListenerSeesNoData ==
    \A c \in WsClients :
        ~ws_run.has_key[c] =>
            \A i \in 1..Len(ws_run.received[c]) :
                \A j \in 1..Len(ws_run.received[c][i].status) :
                    ws_run.received[c][i].status[j]
                        \notin {ws_run.term, WsNameOf(ws_run.term)}

\* C28: a success response (HTTP 2xx with success true) is returned only if
\* the workflow's own result reported success; a workflow result with
\* success = False never yields a success response.
C28_SuccessOnlyIfWorkflowSucceeded ==
    (/\ upload_run.pc = "done"
     /\ upload_run.response.status = 200
     /\ upload_run.response.success)
        => /\ upload_run.result.kind = "returned"
           /\ upload_run.result.success

\* C29: the identifier in the invite form's visitorUuid field when 'Generate
\* Invite' is clicked is the identifier of the visitor the search of the same
\* request found, and equals the visitor_uuid of the response, whatever
\* visitorUuid the caller put in the request.
C29_InviteUuidIsTheFoundVisitor ==
    (invite_run.submitted # "none" /\ invite_run.has_field)
        => /\ invite_run.submitted = invite_run.visitor_uuid
           /\ (invite_run.response.status = 200
                 => invite_run.response.visitor_uuid = invite_run.submitted)

====
